---- MODULE Spec2Model ----
(***************************************************************************)
(* Axis server (src/server.js): the LLM provider selection, the JSON       *)
(* extraction and repair pipeline, the bounded assistant history and the   *)
(* plan / act / respond agent endpoints, modelled as state machines.       *)
(*                                                                         *)
(* Text is modelled by TLA+ strings, one character per position, so the    *)
(* string functions of the source are computed character by character.    *)
(***************************************************************************)
EXTENDS Integers, Sequences, FiniteSets, TLC

(***************************************************************************)
(* String helpers (JavaScript String methods used by the source).          *)
(***************************************************************************)

\* input[i] with the source's 0-based index i written 1-based; "" past the end.
At(s, i) == IF i >= 1 /\ i <= Len(s) THEN SubSeq(s, i, i) ELSE ""

\* String.prototype.slice(from) / slice(from, to), 1-based inclusive bounds.
Slice(s, from, to) ==
    LET lo == IF from < 1 THEN 1 ELSE from
        hi == IF to > Len(s) THEN Len(s) ELSE to
    IN  IF lo > hi THEN "" ELSE SubSeq(s, lo, hi)

\* The white space String.prototype.trim() removes (the ASCII part of it).
WhiteSpace == {" ", "\n", "\t", "\r"}

RECURSIVE TrimStart(_)
TrimStart(s) ==
    IF Len(s) > 0 /\ At(s, 1) \in WhiteSpace THEN TrimStart(Slice(s, 2, Len(s))) ELSE s

RECURSIVE TrimEnd(_)
TrimEnd(s) ==
    IF Len(s) > 0 /\ At(s, Len(s)) \in WhiteSpace
    THEN TrimEnd(Slice(s, 1, Len(s) - 1))
    ELSE s

\* String.prototype.trim()
Trim(s) == TrimEnd(TrimStart(s))

\* The least element of a non-empty set of numbers.
Least(S) == CHOOSE i \in S : \A j \in S : i <= j

\* String.prototype.indexOf(c, i): the 1-based index of the first occurrence of the
\* text c at or after position i, 0 if there is none.
IndexOfFrom(s, c, i) ==
    LET hits == {k \in i..(Len(s) - Len(c) + 1) : SubSeq(s, k, k + Len(c) - 1) = c}
    IN  IF hits = {} THEN 0 ELSE Least(hits)

IndexOf(s, c) == IndexOfFrom(s, c, 1)

\* String.prototype.startsWith(p)
StartsWith(s, p) == Len(s) >= Len(p) /\ SubSeq(s, 1, Len(p)) = p

UpperLetters == "ABCDEFGHIJKLMNOPQRSTUVWXYZ"
LowerLetters == "abcdefghijklmnopqrstuvwxyz"

LowerChar(c) ==
    LET i == IndexOf(UpperLetters, c) IN IF i = 0 THEN c ELSE At(LowerLetters, i)

\* String.prototype.toLowerCase() (ASCII letters)
RECURSIVE ToLowerCase(_)
ToLowerCase(s) ==
    IF Len(s) = 0 THEN "" ELSE LowerChar(At(s, 1)) \o ToLowerCase(Slice(s, 2, Len(s)))

(***************************************************************************)
(* JSON values and JSON.parse (ECMA-404 grammar).  A value is a record     *)
(* [t, s, a, f]: t the type, s the text of a string / number / boolean,    *)
(* a the elements of an array, f the members of an object (key -> value).  *)
(***************************************************************************)
NoMembers == [k \in {} |-> 0]

JString(x) == [t |-> "string", s |-> x, a |-> <<>>, f |-> NoMembers]
JNumber(x) == [t |-> "number", s |-> x, a |-> <<>>, f |-> NoMembers]
JBoolean(x) == [t |-> "boolean", s |-> x, a |-> <<>>, f |-> NoMembers]
JNull == [t |-> "null", s |-> "", a |-> <<>>, f |-> NoMembers]
JArray(x) == [t |-> "array", s |-> "", a |-> x, f |-> NoMembers]
JObject(x) == [t |-> "object", s |-> "", a |-> <<>>, f |-> x]

DigitChars == {"0", "1", "2", "3", "4", "5", "6", "7", "8", "9"}
HexChars == DigitChars \cup {"a", "b", "c", "d", "e", "f", "A", "B", "C", "D", "E", "F"}

\* The outcome of a parsing step: ok, the value read, the position after it.
ParseFail == [ok |-> FALSE, v |-> JNull, pos |-> 0]
ParseOk(v, pos) == [ok |-> TRUE, v |-> v, pos |-> pos]

RECURSIVE SkipWs(_, _)
SkipWs(s, i) == IF At(s, i) \in WhiteSpace THEN SkipWs(s, i + 1) ELSE i

RECURSIVE SkipDigits(_, _)
SkipDigits(s, i) == IF At(s, i) \in DigitChars THEN SkipDigits(s, i + 1) ELSE i

\* What a two-character escape sequence of a JSON string stands for.
Unescape(c) ==
    CASE c = "\"" -> "\""
      [] c = "\\" -> "\\"
      [] c = "/" -> "/"
      [] c = "n" -> "\n"
      [] c = "t" -> "\t"
      [] c = "r" -> "\r"
      [] c = "b" -> "\\b"
      [] c = "f" -> "\f"
      [] OTHER -> ""

\* The characters of a JSON string from position i (after the opening quote).
RECURSIVE ParseStringChars(_, _, _)
ParseStringChars(s, i, acc) ==
    LET c == At(s, i) IN
    IF c = "" \/ c \in {"\n", "\t", "\r"} THEN ParseFail
    ELSE IF c = "\"" THEN ParseOk(JString(acc), i + 1)
    ELSE IF c = "\\" THEN
        LET e == At(s, i + 1) IN
        IF e = "u" THEN
            IF \A k \in 2..5 : At(s, i + k) \in HexChars
            THEN ParseStringChars(s, i + 6, acc \o SubSeq(s, i, i + 5))
            ELSE ParseFail
        ELSE IF Unescape(e) = "" THEN ParseFail
        ELSE ParseStringChars(s, i + 2, acc \o Unescape(e))
    ELSE ParseStringChars(s, i + 1, acc \o c)

\* A JSON number at position i: -? int frac? exp?; its value is its text.
ParseNumber(s, i) ==
    LET i1 == IF At(s, i) = "-" THEN i + 1 ELSE i
        i2 == IF At(s, i1) = "0" THEN i1 + 1 ELSE SkipDigits(s, i1)
        i3 == IF At(s, i2) = "." THEN SkipDigits(s, i2 + 1) ELSE i2
        e1 == IF At(s, i3 + 1) \in {"+", "-"} THEN i3 + 2 ELSE i3 + 1
        i4 == IF At(s, i3) \in {"e", "E"} THEN SkipDigits(s, e1) ELSE i3
    IN  IF i2 = i1 THEN ParseFail
        ELSE IF At(s, i2) = "." /\ i3 = i2 + 1 THEN ParseFail
        ELSE IF At(s, i3) \in {"e", "E"} /\ i4 = e1 THEN ParseFail
        ELSE ParseOk(JNumber(SubSeq(s, i, i4 - 1)), i4)

RECURSIVE ParseValue(_, _), ParseElements(_, _, _), ParseMembers(_, _, _)

\* After an element r of an array: "]" ends the array, "," continues it.
ElementsNext(s, j, acc) ==
    IF At(s, j) = "]" THEN ParseOk(JArray(acc), j + 1)
    ELSE IF At(s, j) = "," THEN ParseElements(s, j + 1, acc)
    ELSE ParseFail

ElementsAfter(s, r, acc) ==
    IF ~r.ok THEN ParseFail ELSE ElementsNext(s, SkipWs(s, r.pos), Append(acc, r.v))

\* elements of an array from position i: value ("," value)* "]".
ParseElements(s, i, acc) == ElementsAfter(s, ParseValue(s, i), acc)

\* After a member of an object: "}" ends the object, "," continues it.
MemberNext(s, j, m) ==
    IF At(s, j) = "}" THEN ParseOk(JObject(m), j + 1)
    ELSE IF At(s, j) = "," THEN ParseMembers(s, j + 1, m)
    ELSE ParseFail

\* A repeated key keeps the last value, as JSON.parse does.
MemberValue(s, key, r, acc) ==
    IF ~r.ok THEN ParseFail ELSE MemberNext(s, SkipWs(s, r.pos), (key :> r.v) @@ acc)

MemberColon(s, k, acc) ==
    IF ~k.ok THEN ParseFail
    ELSE IF At(s, SkipWs(s, k.pos)) # ":" THEN ParseFail
    ELSE MemberValue(s, k.v.s, ParseValue(s, SkipWs(s, k.pos) + 1), acc)

MemberKey(s, i, acc) ==
    IF At(s, i) # "\"" THEN ParseFail
    ELSE MemberColon(s, ParseStringChars(s, i + 1, ""), acc)

\* members of an object from position i: string ":" value ("," ...)* "}".
ParseMembers(s, i, acc) == MemberKey(s, SkipWs(s, i), acc)

\* After "{" and white space: the empty object or its members.
ObjectFrom(s, j) ==
    IF At(s, j) = "}" THEN ParseOk(JObject(NoMembers), j + 1)
    ELSE ParseMembers(s, j, NoMembers)

\* After "[" and white space: the empty array or its elements.
ArrayFrom(s, j) ==
    IF At(s, j) = "]" THEN ParseOk(JArray(<<>>), j + 1)
    ELSE ParseElements(s, j, <<>>)

\* A value at position i: an object, array, string, number or literal.
ValueAt(s, i, c) ==
    IF c = "{" THEN ObjectFrom(s, SkipWs(s, i + 1))
    ELSE IF c = "[" THEN ArrayFrom(s, SkipWs(s, i + 1))
    ELSE IF c = "\"" THEN ParseStringChars(s, i + 1, "")
    ELSE IF c = "-" \/ c \in DigitChars THEN ParseNumber(s, i)
    ELSE IF Slice(s, i, i + 3) = "true" THEN ParseOk(JBoolean("true"), i + 4)
    ELSE IF Slice(s, i, i + 4) = "false" THEN ParseOk(JBoolean("false"), i + 5)
    ELSE IF Slice(s, i, i + 3) = "null" THEN ParseOk(JNull, i + 4)
    ELSE ParseFail

\* value: white space, then the value.
ParseValue(s, i) == ValueAt(s, SkipWs(s, i), At(s, SkipWs(s, i)))

\* The parse succeeds if only white space follows the value.
WholeText(text, r) == IF r.ok /\ SkipWs(text, r.pos) = Len(text) + 1 THEN r ELSE ParseFail

\* JSON.parse(text): one value, white space around it, nothing else.
JSONParse(text) == WholeText(text, ParseValue(text, 1))

\* JavaScript truthiness of a parsed value: 0, "", false and null are falsy.
IsZeroNumber(x) ==
    \A i \in 1..Len(x) :
        At(x, i) \in (DigitChars \ {"0"}) =>
            \E j \in 1..(i - 1) : At(x, j) \in {"e", "E"}

Truthy(v) ==
    CASE v.t = "null" -> FALSE
      [] v.t = "boolean" -> v.s = "true"
      [] v.t = "string" -> v.s # ""
      [] v.t = "number" -> ~IsZeroNumber(v.s)
      [] OTHER -> TRUE

(***************************************************************************)
(* The JSON extraction helpers.  null is modelled by Null (for a text) and *)
(* by JNull (for a value).                                                 *)
(***************************************************************************)
Null == "<null>"

\* safeParseJSON(text): JSON.parse, null when it throws.
ValueOrNull(r) == IF r.ok THEN r.v ELSE JNull

safeParseJSON(text) == ValueOrNull(JSONParse(text))

\* One iteration of the loop of extractFirstJsonObject at index i: st holds the
\* loop's depth, inString and escaped, and ret the index it returned at (0: none).
ScanStep(st, ch, i) ==
    IF st.inString THEN
        IF st.escaped THEN [st EXCEPT !.escaped = FALSE]
        ELSE IF ch = "\\" THEN [st EXCEPT !.escaped = TRUE]
        ELSE IF ch = "\"" THEN [st EXCEPT !.inString = FALSE]
        ELSE st
    ELSE IF ch = "\"" THEN [st EXCEPT !.inString = TRUE]
    ELSE LET d == IF ch = "{" THEN st.depth + 1
                  ELSE IF ch = "}" THEN st.depth - 1
                  ELSE st.depth
         IN  IF d = 0 THEN [st EXCEPT !.depth = d, !.ret = i]
             ELSE [st EXCEPT !.depth = d]

\* The iterations for the indices lo..hi in order, stopping at the return.  (The
\* range is halved so that long texts do not nest the evaluation deeply.)
RECURSIVE ScanRun(_, _, _, _)
ScanRun(input, lo, hi, st) ==
    IF st.ret # 0 \/ lo > hi THEN st
    ELSE IF lo = hi THEN ScanStep(st, At(input, lo), lo)
    ELSE LET mid == (lo + hi) \div 2
         IN  ScanRun(input, mid + 1, hi, ScanRun(input, lo, mid, st))

\* The substring the loop returned, null if it ran to the end of the text.
ScanResult(text, start, end) ==
    IF end.ret = 0 THEN Null ELSE Slice(text, start, end.ret)

ScanStart == [depth |-> 0, inString |-> FALSE, escaped |-> FALSE, ret |-> 0]

\* The same loop with the quoted-string tracking left out.
ExtractNoStrings(text) ==
    LET start == IndexOf(text, "{")
        Opens(j) == Cardinality({k \in start..j : At(text, k) = "{"})
        Closes(j) == Cardinality({k \in start..j : At(text, k) = "}"})
        ends == {j \in start..Len(text) : Opens(j) = Closes(j)}
    IN  IF start = 0 \/ ends = {} THEN Null
        ELSE Slice(text, start, Least(ends))

extractFirstJsonObject(text) ==
    LET start == IndexOf(text, "{") IN
    IF start = 0 THEN Null
    ELSE ScanResult(text, start, ScanRun(text, start, Len(text), ScanStart))

\* The backquote cannot be written in a TLA+ string: the texts of the model
\* write ~ for it, and ~ has no other use in them.
Fence == "~~~"

\* raw.replace(/~~~(?:json)?/gi, ""), ~ the backquote: every fence marker removed.
RECURSIVE StripFences(_)
StripFences(s) ==
    LET i == IndexOf(s, Fence) IN
    IF i = 0 THEN s
    ELSE LET after == IF ToLowerCase(Slice(s, i + 3, i + 6)) = "json" THEN i + 7 ELSE i + 3
         IN  Slice(s, 1, i - 1) \o StripFences(Slice(s, after, Len(s)))

\* safeParseJSONFromText without its third stage (the brace-balanced extraction).
\* JavaScript's a || b on parsed values and on texts.
OrElse(a, b) == IF Truthy(a) THEN a ELSE b
OrText(a, b) == IF a # Null /\ a # "" THEN a ELSE b

ParseFromTextNoExtraction(text) ==
    OrElse(safeParseJSON(Trim(text)), safeParseJSON(Trim(StripFences(Trim(text)))))

\* Stage 3: the first balanced object of the text, or else of the text without
\* its fence markers.
FromExtracted(extracted) ==
    IF extracted # Null /\ extracted # "" THEN safeParseJSON(extracted) ELSE JNull

\* Stage 2: the text without its fence markers.
FromFenceStripped(raw, withoutFences) ==
    OrElse(safeParseJSON(withoutFences),
           FromExtracted(OrText(extractFirstJsonObject(raw),
                                extractFirstJsonObject(withoutFences))))

\* Stage 1: the trimmed text as it is.
FromRaw(raw) == OrElse(safeParseJSON(raw), FromFenceStripped(raw, Trim(StripFences(raw))))

safeParseJSONFromText(text) == FromRaw(Trim(text))

(***************************************************************************)
(* The zod schemas the repair pipeline validates against.  safeParse       *)
(* returns {success, data}; z.object drops the keys the schema does not    *)
(* name and fills in defaults.                                             *)
(***************************************************************************)
ReplyMaxLen == 6000
ToolNameMaxLen == 80

SchemaFail == [success |-> FALSE, data |-> JNull]
SchemaOk(d) == [success |-> TRUE, data |-> d]

Has(v, k) == v.t = "object" /\ k \in DOMAIN v.f

\* z.string().min(lo).max(hi)
IsString(v, lo, hi) == v.t = "string" /\ Len(v.s) >= lo /\ Len(v.s) <= hi

\* z.object({ reply: z.string().min(1).max(6000) })
assistantFinalResponseSchema(v) ==
    IF Has(v, "reply") /\ IsString(v.f["reply"], 1, ReplyMaxLen)
    THEN SchemaOk(JObject("reply" :> v.f["reply"]))
    ELSE SchemaFail

\* z.object({ name: z.string().min(1).max(80), arguments: z.any().optional() })
ToolCallOk(v) == Has(v, "name") /\ IsString(v.f["name"], 1, ToolNameMaxLen)

ToolCallData(v) ==
    IF Has(v, "arguments")
    THEN JObject(("name" :> v.f["name"]) @@ ("arguments" :> v.f["arguments"]))
    ELSE JObject("name" :> v.f["name"])

\* z.object({ assistant_reply: z.string().min(1).max(6000),
\*            tool_calls: z.array(assistantToolCallSchema).optional().default([]) })
assistantPlannerResponseSchema(v) ==
    IF ~(Has(v, "assistant_reply") /\ IsString(v.f["assistant_reply"], 1, ReplyMaxLen))
    THEN SchemaFail
    ELSE IF ~Has(v, "tool_calls")
    THEN SchemaOk(JObject(("assistant_reply" :> v.f["assistant_reply"])
                          @@ ("tool_calls" :> JArray(<<>>))))
    ELSE LET calls == v.f["tool_calls"] IN
         IF calls.t = "array" /\ \A i \in 1..Len(calls.a) : ToolCallOk(calls.a[i])
         THEN SchemaOk(JObject(
                  ("assistant_reply" :> v.f["assistant_reply"])
                  @@ ("tool_calls" :>
                        JArray([i \in 1..Len(calls.a) |-> ToolCallData(calls.a[i])]))))
         ELSE SchemaFail

\* schema.safeParse(value) for the schema of that name.
SchemaParse(schema, v) ==
    IF schema = "assistantPlannerResponseSchema"
    THEN assistantPlannerResponseSchema(v)
    ELSE assistantFinalResponseSchema(v)

(***************************************************************************)
(* callLlmWithJsonRepair: the result once the first reply is in, and once  *)
(* the reply of the repair call is in.                                     *)
(***************************************************************************)
Pending == [ok |-> FALSE, pending |-> TRUE]

\* The repair outcome of a pipeline that falls back to the unvalidated value.
RepairWithFallback(schema, raw, repairedRaw) ==
    [ok |-> TRUE, raw |-> repairedRaw,
     data |-> safeParseJSONFromText(repairedRaw), repaired |-> TRUE]

\* Lines 266-270: parse and validate the first reply.
FirstValidated(raw, validated) ==
    IF validated.success
    THEN [ok |-> TRUE, raw |-> raw, data |-> validated.data, repaired |-> FALSE]
    ELSE Pending

JsonFirstResult(schema, raw) ==
    FirstValidated(raw, SchemaParse(schema, safeParseJSONFromText(raw)))

\* Lines 293-299: parse and validate the reply of the repair call.
RepairValidated(raw, repairedRaw, repairedValidated) ==
    IF repairedValidated.success
    THEN [ok |-> TRUE, raw |-> repairedRaw, data |-> repairedValidated.data,
          repaired |-> TRUE]
    ELSE [ok |-> FALSE, raw |-> raw, repairedRaw |-> repairedRaw]

JsonRepairResult(schema, raw, repairedRaw) ==
    RepairValidated(raw, repairedRaw, SchemaParse(schema, safeParseJSONFromText(repairedRaw)))

(***************************************************************************)
(* The user's record.  Of its fields the model keeps the planner state and *)
(* the assistant history; a task keeps its id, name, category, completion  *)
(* and its link to a daily goal.                                           *)
(***************************************************************************)
\* ensureAxisUserDataShape(null): the empty record.
EmptyData ==
    [settings |-> [aiProvider |-> Null], tasks |-> <<>>, schedule |-> <<>>,
     fixedBlocks |-> <<>>, goals |-> <<>>, dailyHabits |-> <<>>,
     assistantHistory |-> <<>>, lastRebalancedAt |-> Null]

(***************************************************************************)
(* appendAssistantHistory.  An entry handed to it is [isObject, role,      *)
(* content]; ts is the reading of the clock.                               *)
(***************************************************************************)
ASSISTANT_HISTORY_LIMIT == 20
HistoryContentMax == 1200

\* Lines 1804-1807: entries that are no objects or have blank content are skipped.
Pushable(entry) == entry.isObject /\ Trim(entry.content) # ""

\* Lines 1805-1812: the entry pushed.
Pushed(entry, ts) ==
    [role |-> IF entry.role = "assistant" THEN "assistant" ELSE "user",
     content |-> Slice(Trim(entry.content), 1, HistoryContentMax),
     ts |-> ts]

\* Lines 1803-1814: list.forEach.
RECURSIVE PushAll(_, _, _)
PushAll(history, list, ts) ==
    IF list = <<>> THEN history
    ELSE PushAll(IF Pushable(Head(list)) THEN Append(history, Pushed(Head(list), ts))
                 ELSE history,
                 Tail(list), ts)

\* The last n elements of a sequence, and the first n.
LastN(seq, n) == IF Len(seq) > n THEN SubSeq(seq, Len(seq) - n + 1, Len(seq)) ELSE seq
FirstN(seq, n) == IF Len(seq) > n THEN SubSeq(seq, 1, n) ELSE seq

\* An append that drops the newest entries when the history is full.
AppendKeepingOldest(history, list, ts) ==
    [history |-> FirstN(PushAll(history, list, ts), ASSISTANT_HISTORY_LIMIT),
     changed |-> \E i \in 1..Len(list) : Pushable(list[i])]

\* Lines 1799-1819: the history after the call and the value returned.
appendAssistantHistory(history, list, ts) ==
    [history |-> LastN(PushAll(history, list, ts), ASSISTANT_HISTORY_LIMIT),
     changed |-> \E i \in 1..Len(list) : Pushable(list[i])]

(***************************************************************************)
(* State.  Every specification below runs one part of the server and       *)
(* leaves the variables of the other parts at their idle values.           *)
(***************************************************************************)
VARIABLES
    extractInput,   \* the text handed to extractFirstJsonObject
    extractOutput,  \* what it returned (Unset before the call)
    jr,             \* the callLlmWithJsonRepair call in progress
    jrParts,        \* how the first reply of that call was composed (an input)
    data,           \* the user's record in the memory of the request
    now,            \* the clock
    histLog,        \* every history entry ever pushed, in order
    histCalls,      \* the number of appendAssistantHistory calls made
    config,         \* LLM_PROVIDER and the API keys as read from the environment
    prov,           \* a provider resolution and the adapter call that follows it
    disk,           \* the user's record as saved in the user's file
    turn,           \* the agent turn in progress
    events,         \* the events written to the response of a streaming turn
    adapterCall,    \* one call of a provider adapter (callDeepSeek, callOpenAI, ...)
    wire,           \* one run of a wire decoder (readSseEvents, readJsonLines)
    planner,        \* the tool calls made one after the other on one record
    overlap,        \* two agent turns of one user and the user's file
    queue           \* the OfflineQueue of the client

extractVars == <<extractInput, extractOutput>>
jsonVars == <<jr, jrParts>>
histVars == <<data, now, histLog, histCalls>>

provVars == <<config, prov>>

agentVars == <<disk, turn, events>>

adapterVars == <<adapterCall, wire>>

otherVars == <<planner, overlap, queue>>

vars == <<extractVars, jsonVars, histVars, provVars, agentVars, adapterVars, otherVars>>

Unset == "<unset>"

\* The idle values of the repair pipeline's variables.
NoParts == [kind |-> "none", pre |-> "", open |-> "", obj |-> "", close |-> "", post |-> ""]
JrIdleValue ==
    [pc |-> "idle", schema |-> "", raw |-> "", repairedRaw |-> "", calls |-> 0,
     result |-> Pending]
JsonIdle == jr = JrIdleValue /\ jrParts = NoParts

ExtractIdle == extractInput = "" /\ extractOutput = Unset

HistIdle == data = EmptyData /\ now = 0 /\ histLog = <<>> /\ histCalls = 0

\* No environment variable set, no resolution in progress.
NoConfig ==
    [LLM_PROVIDER |-> "deepseek",
     keys |-> [deepseek |-> "", openai |-> "", gemini |-> ""]]
ProvIdleValue ==
    [pc |-> "idle", fn |-> "", requested |-> "", pref |-> "", resolved |-> "",
     adapter |-> "", sent |-> 0, error |-> ""]
ProvIdle == config = NoConfig /\ prov = ProvIdleValue

\* No turn in progress.
NoResponse == [status |-> 0, error |-> "", reply |-> ""]
NoStream == [phase |-> "none", attempt |-> 0, full |-> "", chunks |-> 0]
TurnIdleValue ==
    [pc |-> "idle", endpoint |-> "", message |-> "", provider |-> "", loaded |-> EmptyData,
     planFailed |-> FALSE, finalFailed |-> FALSE, planned |-> <<>>, planReply |-> "", toolCalls |-> <<>>, idx |-> 0,
     toolResults |-> <<>>, trace |-> <<>>, llmCalls |-> <<>>, changed |-> FALSE, reply |-> "",
     stream |-> NoStream, aborted |-> FALSE, abortedIn |-> "", abortedAt |-> 0,
     abortedCalls |-> 0,
     saves |-> 0, response |-> NoResponse]
AgentIdle == disk = EmptyData /\ turn = TurnIdleValue /\ events = <<>>

\* No adapter call and no decoder run in progress.
NoError == [name |-> "", code |-> "", message |-> ""]
CallIdleValue ==
    [pc |-> "idle", adapter |-> "", stream |-> FALSE, expectJSON |-> FALSE, attempt |-> 0,
     requests |-> <<>>, seen |-> <<>>, waits |-> <<>>, body |-> <<>>, full |-> "",
     last |-> "", hasContent |-> FALSE, tokens |-> <<>>, reply |-> "", error |-> NoError,
     fallback |-> FALSE, aborted |-> FALSE, responses |-> FALSE, frames |-> <<>>]
WireIdleValue ==
    [pc |-> "idle", decoder |-> "", bytes |-> "", reads |-> <<>>, buffer |-> "",
     eventName |-> "", dataLines |-> <<>>, stop |-> FALSE, delivered |-> <<>>,
     consumed |-> "", chunks |-> <<>>]
AdapterIdle == adapterCall = CallIdleValue /\ wire = WireIdleValue

\* No sequence of tool calls, no overlapping turns, no client queue.
PlannerIdleValue == [calls |-> 0, name |-> "", ok |-> FALSE, before |-> EmptyData]
OverlapIdleValue == [file |-> EmptyData, clock |-> 0, saves |-> 0, turns |-> <<>>]
QueueIdleValue ==
    [items |-> <<>>, retries |-> <<>>, isOnline |-> FALSE, syncing |-> FALSE,
     active |-> 0, pass |-> <<>>, passes |-> 0, nextId |-> 1, enqueued |-> 0,
     sent |-> <<>>, succeeded |-> {}, lastSent |-> 0, fetches |-> 0, removes |-> 0]
OthersIdle ==
    planner = PlannerIdleValue /\ overlap = OverlapIdleValue /\ queue = QueueIdleValue

(***************************************************************************)
(* extractFirstJsonObject applied to bounded texts.                        *)
(***************************************************************************)
MaxLen == 5

ExtractAlphabet == {"{", "}", "\"", "\\", "a"}

RECURSIVE TextsUpTo(_, _)
TextsUpTo(alphabet, n) ==
    IF n = 0 THEN {""}
    ELSE LET shorter == TextsUpTo(alphabet, n - 1)
         IN  shorter \cup {t \o c : t \in shorter, c \in alphabet}

ExtractInputs ==
    TextsUpTo(ExtractAlphabet, MaxLen)
        \cup { "{\"a\":1} thanks!",
               "Sure: {\"a\":{\"b\":\"}\"}} and {\"c\":2}",
               "{\"a\":\"x\\\\\"} {",
               "no json here",
               "{\"a\":\"unterminated} " }

ExtractInit ==
    /\ extractInput \in ExtractInputs
    /\ extractOutput = Unset
    /\ JsonIdle /\ HistIdle /\ ProvIdle /\ AgentIdle /\ AdapterIdle /\ OthersIdle

ExtractCall ==
    /\ extractOutput = Unset
    /\ extractOutput' = extractFirstJsonObject(extractInput)
    /\ UNCHANGED <<agentVars, adapterVars, otherVars, extractInput, jsonVars, histVars, provVars>>

ExtractNext == ExtractCall

SpecExtract == ExtractInit /\ [][ExtractNext]_vars

(***************************************************************************)
(* callLlmWithJsonRepair as a process: jr.pc is "first" while the first    *)
(* callLlm is awaited, "repair" while the repair call is awaited, "done"   *)
(* once it returned and "threw" when a callLlm threw.  jr.calls counts the *)
(* callLlm calls issued.                                                   *)
(***************************************************************************)
\* Line 257: the first callLlm is issued.
JrStart(schema) ==
    /\ jr.pc = "idle"
    /\ jr' = [JrIdleValue EXCEPT !.pc = "first", !.schema = schema, !.calls = 1]

\* Lines 257-291: the first reply arrives; on a validation failure the repair
\* call is issued.
AfterFirst(j, raw, res) ==
    IF res.ok
    THEN [j EXCEPT !.pc = "done", !.raw = raw, !.result = res]
    ELSE [j EXCEPT !.pc = "repair", !.raw = raw, !.calls = j.calls + 1]

JrFirstReply(raw) ==
    /\ jr.pc = "first"
    /\ jr' = AfterFirst(jr, raw, JsonFirstResult(jr.schema, raw))

\* Lines 284-299: the reply of the repair call arrives.
JrRepairReply(repairedRaw) ==
    /\ jr.pc = "repair"
    /\ jr' = [jr EXCEPT !.pc = "done", !.repairedRaw = repairedRaw,
                        !.result = JsonRepairResult(jr.schema, jr.raw, repairedRaw)]

\* callLlm rejects (provider error): the rejection leaves callLlmWithJsonRepair.
JrThrow ==
    /\ jr.pc \in {"first", "repair"}
    /\ jr' = [jr EXCEPT !.pc = "threw"]

(***************************************************************************)
(* The pipeline on bounded replies: a schema-valid object, bare or wrapped *)
(* in code fences and prose, and replies that are no valid object.         *)
(***************************************************************************)
ProseBefore ==
    {"", "Sure! ", "Here is the JSON:\n", "Use {braces} like this: ", "[", "   "}
ProseAfter == {"", " thanks!", "\nTell me {if} that works.", "]"}
FenceOpen == {"", "~~~json\n", "~~~\n", "~~~JSON "}
FenceClose == {"", "\n~~~"}

FinalObjects ==
    { "{\"reply\":\"hi\"}",
      "{ \"reply\" : \"a}b{\", \"x\" : [1, {\"y\" : null}] }",
      "{\"reply\":\"say \\\"{\\\" and ~~~ ok\"}" }

PlannerObjects ==
    { "{\"assistant_reply\":\"ok\"}",
      "{\"assistant_reply\":\"ok\",\"tool_calls\":[{\"name\":\"list_tasks\"},{\"name\":\"delete_task\",\"arguments\":{\"id\":\"t1\"}}]}" }

SchemaObjects(schema) ==
    IF schema = "assistantPlannerResponseSchema" THEN PlannerObjects ELSE FinalObjects

\* Replies that hold no schema-valid object.
InvalidReplies ==
    { "I cannot help with that.", "", "0", "[]", "{\"reply\":\"\"}", "{\"reply\":5}",
      "{\"reply\":\"unterminated", "{\"assistant_reply\":\"ok\",\"tool_calls\":[{}]}",
      "{\"other\":\"hi\"}" }

RepairReplies ==
    { "{\"reply\":\"fixed\"}", "~~~json\n{\"assistant_reply\":\"fixed\"}\n~~~",
      "Sorry, I cannot.", "{\"reply\":\"\"}" }

Compose(p) == p.pre \o p.open \o p.obj \o p.close \o p.post

WrappedParts(schema) ==
    { [kind |-> "wrapped", pre |-> a, open |-> b, obj |-> o, close |-> c, post |-> d] :
        a \in ProseBefore, b \in FenceOpen, o \in SchemaObjects(schema),
        c \in FenceClose, d \in ProseAfter }

PlainParts ==
    { [kind |-> "plain", pre |-> t, open |-> "", obj |-> "", close |-> "", post |-> ""] :
        t \in InvalidReplies }

JsonInit == ExtractIdle /\ JsonIdle /\ HistIdle /\ ProvIdle /\ AgentIdle /\ AdapterIdle /\ OthersIdle

JsonStart ==
    /\ \E schema \in {"assistantFinalResponseSchema", "assistantPlannerResponseSchema"} :
          JrStart(schema)
    /\ UNCHANGED <<agentVars, adapterVars, otherVars, extractVars, histVars, provVars, jrParts>>

JsonFirst ==
    /\ \E p \in WrappedParts(jr.schema) \cup PlainParts :
          JrFirstReply(Compose(p)) /\ jrParts' = p
    /\ UNCHANGED <<agentVars, adapterVars, otherVars, extractVars, histVars, provVars>>

JsonRepair ==
    /\ \E t \in RepairReplies : JrRepairReply(t)
    /\ UNCHANGED <<agentVars, adapterVars, otherVars, extractVars, histVars, provVars, jrParts>>

JsonThrow == JrThrow /\ UNCHANGED <<agentVars, adapterVars, otherVars, extractVars, histVars, provVars, jrParts>>

JsonNext == JsonStart \/ JsonFirst \/ JsonRepair \/ JsonThrow

SpecJson == JsonInit /\ [][JsonNext]_vars

(***************************************************************************)
(* appendAssistantHistory on a record whose history holds the entries of a *)
(* number of earlier turns.  POST /api/user/data stores the record it is   *)
(* sent, so the stored history may be longer than the limit.               *)
(***************************************************************************)
MaxHistCalls == 5

UserEntry(content) == [isObject |-> TRUE, role |-> "user", content |-> content]
AssistantEntry(content) == [isObject |-> TRUE, role |-> "assistant", content |-> content]

\* The entries of the k-th of n earlier turns, oldest first.
RECURSIVE EarlierTurns(_)
EarlierTurns(n) ==
    IF n = 0 THEN <<>>
    ELSE EarlierTurns(n - 1) \o
         << [role |-> "user", content |-> "hi", ts |-> n],
            [role |-> "assistant", content |-> "ok", ts |-> n] >>

StoredTurns == {0, 9, 10, 12}

\* The lists handed to appendAssistantHistory.
HistLists ==
    { << UserEntry("hi"), AssistantEntry("ok") >>,
      << UserEntry("hi"), AssistantEntry("   ") >>,
      << UserEntry("  padded  ") >>,
      << [isObject |-> FALSE, role |-> "", content |-> ""],
         [isObject |-> TRUE, role |-> "system", content |-> "note"] >>,
      << UserEntry("") >> }

HistInit ==
    /\ \E n \in StoredTurns :
          /\ data = [EmptyData EXCEPT !.assistantHistory = EarlierTurns(n)]
          /\ histLog = EarlierTurns(n)
          /\ now = n + 1
    /\ histCalls = 0
    /\ ExtractIdle /\ JsonIdle /\ ProvIdle /\ AgentIdle /\ AdapterIdle /\ OthersIdle

HistAppend ==
    /\ histCalls < MaxHistCalls
    /\ \E list \in HistLists :
          /\ data' = [data EXCEPT !.assistantHistory =
                         appendAssistantHistory(data.assistantHistory, list, now).history]
          /\ histLog' = PushAll(histLog, list, now)
    /\ histCalls' = histCalls + 1
    /\ now' = now + 1
    /\ UNCHANGED <<agentVars, adapterVars, otherVars, extractVars, jsonVars, provVars>>

HistNext == HistAppend

SpecHist == HistInit /\ [][HistNext]_vars

(***************************************************************************)
(* Provider selection.  An unset environment variable is the empty text.   *)
(***************************************************************************)
SUPPORTED_LLM_PROVIDERS == {"deepseek", "openai", "gemini"}

\* Lines 39-42: trim, then drop a leading "Bearer" and the white space after it.
StripBearer(key) ==
    IF ToLowerCase(Slice(key, 1, 6)) = "bearer" /\ At(key, 7) \in WhiteSpace
    THEN TrimStart(Slice(key, 7, Len(key)))
    ELSE key

normalizeApiKey(key) == IF key = "" THEN "" ELSE StripBearer(Trim(key))

\* Lines 50-66: the configuration the module computes when it is loaded.
LoadConfig(env) ==
    [LLM_PROVIDER |->
        ToLowerCase(Trim(IF env.LLM_PROVIDER # "" THEN env.LLM_PROVIDER
                         ELSE IF env.AI_PROVIDER # "" THEN env.AI_PROVIDER
                         ELSE "deepseek")),
     keys |-> [deepseek |-> normalizeApiKey(env.DEEPSEEK_API_KEY),
               openai |-> normalizeApiKey(env.OPENAI_API_KEY),
               gemini |-> normalizeApiKey(env.GEMINI_API_KEY)]]

\* Lines 140-143; null and undefined are written Null.
normalizeProvider(value) ==
    IF value # Null /\ ToLowerCase(Trim(value)) \in SUPPORTED_LLM_PROVIDERS
    THEN ToLowerCase(Trim(value))
    ELSE ""

Placeholder(provider) == "your_" \o provider \o "_api_key_here"

\* Lines 145-157.
isProviderConfigured(provider) ==
    /\ normalizeProvider(provider) # ""
    /\ config.keys[normalizeProvider(provider)] # ""
    /\ config.keys[normalizeProvider(provider)] # Placeholder(normalizeProvider(provider))

\* Lines 159-161: the supported providers in sorted order, filtered.
SortedProviders == <<"deepseek", "gemini", "openai">>
listConfiguredProviders == SelectSeq(SortedProviders, isProviderConfigured)

\* Lines 1528-1530 of ensureAxisUserDataShape: the preference kept in the record.
ShapeAiProvider(aiProviderRaw) ==
    IF aiProviderRaw # Null /\ ToLowerCase(Trim(aiProviderRaw)) \in SUPPORTED_LLM_PROVIDERS
    THEN ToLowerCase(Trim(aiProviderRaw))
    ELSE Null

\* Lines 1505-1551 on the fields the model keeps.
ensureAxisUserDataShape(d) ==
    [d EXCEPT !.settings = [aiProvider |-> ShapeAiProvider(d.settings.aiProvider)]]

\* Lines 168, 181.
EnvDefault ==
    IF normalizeProvider(config.LLM_PROVIDER) # ""
    THEN normalizeProvider(config.LLM_PROVIDER)
    ELSE "deepseek"

\* Lines 168-174, 181-187: the steps after the first, with the last resort given.
AfterFirstChoice(lastResort) ==
    IF isProviderConfigured(EnvDefault) THEN EnvDefault
    ELSE IF listConfiguredProviders # <<>> THEN listConfiguredProviders[1]
    ELSE lastResort

\* Lines 163-175.
resolveProviderForUserData(d) ==
    IF normalizeProvider(ensureAxisUserDataShape(d).settings.aiProvider) # ""
       /\ isProviderConfigured(normalizeProvider(ensureAxisUserDataShape(d).settings.aiProvider))
    THEN normalizeProvider(ensureAxisUserDataShape(d).settings.aiProvider)
    ELSE AfterFirstChoice(EnvDefault)

\* A resolution that takes the requested provider without asking for its key.
ResolveUnchecked(requestedProvider) ==
    IF normalizeProvider(requestedProvider) # "" THEN normalizeProvider(requestedProvider)
    ELSE EnvDefault

\* Lines 177-188.
resolveProviderForRequest(requestedProvider) ==
    IF normalizeProvider(requestedProvider) # ""
       /\ isProviderConfigured(normalizeProvider(requestedProvider))
    THEN normalizeProvider(requestedProvider)
    ELSE AfterFirstChoice(IF normalizeProvider(requestedProvider) # ""
                          THEN normalizeProvider(requestedProvider)
                          ELSE EnvDefault)

\* Lines 805, 1276, 3848: provider || LLM_PROVIDER || "deepseek".
ProviderOrDefault(provider) ==
    IF provider # Null /\ provider # "" THEN provider
    ELSE IF config.LLM_PROVIDER # "" THEN config.LLM_PROVIDER
    ELSE "deepseek"

\* A callLlm that takes the server's default whatever provider it is given.
LlmAdapterOfDefault(provider) == EnvDefault

\* Lines 805-809, 1276-1279: the adapter callLlm and callLlmStream dispatch to.
LlmAdapter(provider) == resolveProviderForRequest(ProviderOrDefault(provider))

\* Lines 441-443, 532-534, 677-679 (and 956, 1019, 1133 of the stream adapters):
\* the adapter throws before any request when its key is empty.
NotConfiguredError(adapter) ==
    CASE adapter = "openai" -> "OPENAI_API_KEY is not configured on the server."
      [] adapter = "gemini" -> "GEMINI_API_KEY is not configured on the server."
      [] OTHER -> "DEEPSEEK_API_KEY is not configured on the server."

AdapterThrowsNotConfigured(adapter) == config.keys[adapter] = ""

(***************************************************************************)
(* A resolution under a bounded environment, then the first adapter call.  *)
(***************************************************************************)
EnvProviders == {"", "OpenAI ", "gemini", "claude"}
EnvKeys(provider) == {"", "sk-live", Placeholder(provider), " Bearer  sk-live ", "   "}

Environments ==
    [LLM_PROVIDER : EnvProviders, AI_PROVIDER : {"", "gemini"},
     DEEPSEEK_API_KEY : EnvKeys("deepseek"), OPENAI_API_KEY : EnvKeys("openai"),
     GEMINI_API_KEY : EnvKeys("gemini")]

\* settings.aiProvider as stored, and the provider named in a request body.
StoredPreferences == {Null, "openai", " Gemini", "deepseek", "mistral"}
RequestedProviders == {Null, "", "openai", "GEMINI ", "deepseek", "mistral"}

ProvInit ==
    /\ \E env \in Environments : config = LoadConfig(env)
    /\ prov = ProvIdleValue
    /\ ExtractIdle /\ JsonIdle /\ HistIdle /\ AgentIdle /\ AdapterIdle /\ OthersIdle

\* The agent endpoints, lines 3072 and 3172: the provider of the user's record.
ProvResolveForUserData ==
    /\ prov.pc = "idle"
    /\ \E pref \in StoredPreferences :
          prov' = [prov EXCEPT !.pc = "resolved", !.fn = "resolveProviderForUserData",
                               !.pref = pref,
                               !.resolved = resolveProviderForUserData(
                                   [EmptyData EXCEPT !.settings.aiProvider = pref])]
    /\ UNCHANGED <<agentVars, adapterVars, otherVars, config, extractVars, jsonVars, histVars>>

\* POST /api/chat/stream, line 3848: the provider named in the request body.
ProvResolveForRequest ==
    /\ prov.pc = "idle"
    /\ \E requested \in RequestedProviders :
          prov' = [prov EXCEPT !.pc = "resolved", !.fn = "resolveProviderForRequest",
                               !.requested = requested,
                               !.resolved = resolveProviderForRequest(
                                   ProviderOrDefault(requested))]
    /\ UNCHANGED <<agentVars, adapterVars, otherVars, config, extractVars, jsonVars, histVars>>

\* callLlm with the resolved provider, up to the adapter's first request.
ProvCallLlm ==
    /\ prov.pc = "resolved"
    /\ prov' = [prov EXCEPT
                  !.pc = "called",
                  !.adapter = LlmAdapter(prov.resolved),
                  !.sent = IF AdapterThrowsNotConfigured(LlmAdapter(prov.resolved))
                           THEN 0 ELSE 1,
                  !.error = IF AdapterThrowsNotConfigured(LlmAdapter(prov.resolved))
                            THEN NotConfiguredError(LlmAdapter(prov.resolved)) ELSE ""]
    /\ UNCHANGED <<agentVars, adapterVars, otherVars, config, extractVars, jsonVars, histVars>>

ProvNext == ProvResolveForUserData \/ ProvResolveForRequest \/ ProvCallLlm

SpecProv == ProvInit /\ [][ProvNext]_vars

(***************************************************************************)
(* The planner state and the assistant's tools.  A task is [id, task_name, *)
(* task_category, completed, fromDailyGoal, goalId], a goal [id, name,     *)
(* level, completed], a habit [id, name, time], a schedule block [kind,    *)
(* taskId, start, end] and a fixed block [start, end, label]; the other    *)
(* fields of the source's objects do not bear on the tools' control flow.  *)
(***************************************************************************)
\* A property that is absent reads as undefined.
Undefined == [t |-> "undefined", s |-> "", a |-> <<>>, f |-> NoMembers]
Field(v, k) == IF Has(v, k) THEN v.f[k] ELSE Undefined

\* zod: .optional() admits an absent key, .nullable() admits null.
OptString(v, k, lo, hi) == ~Has(v, k) \/ IsString(v.f[k], lo, hi)
OptAnyString(v, k) == ~Has(v, k) \/ v.f[k].t = "string"
OptBoolean(v, k) == ~Has(v, k) \/ v.f[k].t = "boolean"

\* The value of the digits of a text, most significant first.
RECURSIVE DigitsValue(_, _)
DigitsValue(text, acc) ==
    IF text = "" THEN acc
    ELSE DigitsValue(Slice(text, 2, Len(text)),
                     10 * acc + (CHOOSE d \in 0..9 : ToString(d) = At(text, 1)))

\* The text of a JSON number is an integer in plain notation.
IsIntegerText(x) ==
    /\ x # ""
    /\ \A i \in 1..Len(x) : At(x, i) \in DigitChars \/ (i = 1 /\ At(x, i) = "-" /\ Len(x) > 1)

IntegerValue(x) ==
    IF At(x, 1) = "-" THEN 0 - DigitsValue(Slice(x, 2, Len(x)), 0) ELSE DigitsValue(x, 0)

\* z.number().int().min(lo).max(hi)
IsIntegerIn(v, lo, hi) ==
    /\ v.t = "number" /\ IsIntegerText(v.s)
    /\ IntegerValue(v.s) >= lo /\ IntegerValue(v.s) <= hi

\* Line 2757: args && typeof args === "object" ? args : {}
ToolInput(args) == IF args.t \in {"object", "array"} THEN args ELSE JObject(NoMembers)

\* Lines 1412-1420, with task_duration_hours a number in plain integer notation.
taskCreateSchema(v) ==
    /\ Has(v, "task_name") /\ IsString(v.f["task_name"], 1, 200)
    /\ OptAnyString(v, "task_priority") /\ OptAnyString(v, "task_category")
    /\ OptAnyString(v, "task_deadline") /\ OptAnyString(v, "task_deadline_time")
    /\ (~Has(v, "task_duration_hours") \/ v.f["task_duration_hours"].t \in {"number", "null"})
    /\ OptBoolean(v, "computer_required")

\* Lines 1422-1431 and 2439-2441.
assistantUpdateTaskSchema(v) ==
    /\ Has(v, "id") /\ IsString(v.f["id"], 1, 200)
    /\ OptString(v, "task_name", 1, 200)
    /\ OptAnyString(v, "task_priority") /\ OptAnyString(v, "task_category")
    /\ OptAnyString(v, "task_deadline") /\ OptAnyString(v, "task_deadline_time")
    /\ (~Has(v, "task_duration_hours") \/ v.f["task_duration_hours"].t \in {"number", "null"})
    /\ OptBoolean(v, "computer_required") /\ OptBoolean(v, "completed")

\* Lines 2443-2449 and 2473-2475: { id: z.string().min(1).max(200) }
IdSchema(v) == Has(v, "id") /\ IsString(v.f["id"], 1, 200)

\* Lines 1433-1437.
habitCreateSchema(v) ==
    /\ Has(v, "name") /\ IsString(v.f["name"], 1, 120)
    /\ Has(v, "time") /\ IsString(v.f["time"], 1, 40)
    /\ OptString(v, "description", 0, 240)

\* The checks of lines 2451-2471 that goalCreateSchema and goalUpdateSchema share.
GoalFieldsOk(v) ==
    /\ OptAnyString(v, "level")
    /\ (~Has(v, "parentId") \/ v.f["parentId"].t \in {"string", "null"})
    /\ OptAnyString(v, "startDate") /\ OptAnyString(v, "endDate")
    /\ (~Has(v, "manualProgress") \/ IsIntegerIn(v.f["manualProgress"], 0, 100))
    /\ (~Has(v, "milestones")
          \/ /\ v.f["milestones"].t = "array"
             /\ \A i \in 1..Len(v.f["milestones"].a) : v.f["milestones"].a[i].t = "number")

goalCreateSchema(v) == Has(v, "name") /\ IsString(v.f["name"], 1, 200) /\ GoalFieldsOk(v)

goalUpdateSchema(v) ==
    /\ Has(v, "id") /\ IsString(v.f["id"], 1, 200)
    /\ OptString(v, "name", 1, 200) /\ GoalFieldsOk(v) /\ OptBoolean(v, "completed")

\* Lines 2477-2480, with maxHoursPerDay in plain integer notation.
assistantRebalanceSchema(v) ==
    /\ v.t = "object"
    /\ (~Has(v, "horizonDays") \/ IsIntegerIn(v.f["horizonDays"], 1, 21))
    /\ (~Has(v, "maxHoursPerDay") \/ IsIntegerIn(v.f["maxHoursPerDay"], 1, 16))

\* String(x || "").trim() of a string property that may be absent.
TrimmedText(v) == IF v.t = "string" THEN Trim(v.s) ELSE ""

\* Lines 1574-1577.
normalizeTaskCategory(v) == IF v.t = "string" /\ v.s # "" THEN ToLowerCase(Trim(v.s)) ELSE "study"

\* Lines 1586-1601; ts stands for the time and the random bytes of the id.
createAxisTask(input, ts) ==
    [id |-> "task_" \o ToString(ts),
     task_name |-> TrimmedText(Field(input, "task_name")),
     task_category |-> normalizeTaskCategory(Field(input, "task_category")),
     completed |-> FALSE, fromDailyGoal |-> FALSE, goalId |-> Null]

\* Array.prototype.findIndex on the ids; 0 when there is none.
IndexOfId(seq, id) ==
    IF \E i \in 1..Len(seq) : seq[i].id = id
    THEN Least({i \in 1..Len(seq) : seq[i].id = id})
    ELSE 0

\* Array.prototype.filter keeping the elements whose id, or taskId, is not id.
WithoutId(seq, id) == SelectSeq(seq, LAMBDA x : x.id # id)
WithoutTaskBlocks(schedule, id) ==
    SelectSeq(schedule, LAMBDA b : ~(b.kind = "task" /\ b.taskId = id))

\* Lines 2801-2816: the patch of update_task on the fields kept.
PatchTask(task, patch) ==
    [task EXCEPT
       !.task_name = IF Has(patch, "task_name") THEN TrimmedText(patch.f["task_name"]) ELSE @,
       !.task_category = IF Has(patch, "task_category")
                         THEN normalizeTaskCategory(patch.f["task_category"]) ELSE @,
       !.completed = IF Has(patch, "completed") THEN patch.f["completed"].s = "true" ELSE @]

LowerLetterChars == {At(LowerLetters, i) : i \in 1..Len(LowerLetters)}

\* String.prototype.replace(/[...]+/g, "-"): every maximal run of separator
\* characters becomes one dash; a character separates when its membership in
\* chars equals member.
Separates(c, chars, member) == (c \in chars) = member

RECURSIVE DashRuns(_, _, _, _)
DashRuns(text, i, chars, member) ==
    IF i > Len(text) THEN ""
    ELSE IF ~Separates(At(text, i), chars, member)
    THEN At(text, i) \o DashRuns(text, i + 1, chars, member)
    ELSE IF i > 1 /\ Separates(At(text, i - 1), chars, member)
    THEN DashRuns(text, i + 1, chars, member)
    ELSE "-" \o DashRuns(text, i + 1, chars, member)

\* Lines 1619-1642.
GoalLevelMapping ==
    ("lifetime" :> "lifetime") @@ ("life" :> "lifetime") @@ ("long-term" :> "lifetime")
    @@ ("longterm" :> "lifetime") @@ ("yearly" :> "yearly") @@ ("annual" :> "yearly")
    @@ ("year" :> "yearly") @@ ("seasonal" :> "seasonal") @@ ("quarterly" :> "seasonal")
    @@ ("quarter" :> "seasonal") @@ ("monthly" :> "monthly") @@ ("month" :> "monthly")
    @@ ("weekly" :> "weekly") @@ ("week" :> "weekly") @@ ("daily" :> "daily")
    @@ ("day" :> "daily")

MappedLevel(normalized) ==
    IF normalized \in DOMAIN GoalLevelMapping THEN GoalLevelMapping[normalized] ELSE "lifetime"

normalizeGoalLevel(text) ==
    IF ToLowerCase(Trim(text)) = "" THEN "lifetime"
    ELSE MappedLevel(DashRuns(ToLowerCase(Trim(text)), 1, LowerLetterChars, FALSE))

\* Lines 1668-1674.
goalSlug(name) == DashRuns(ToLowerCase(Trim(name)), 1, WhiteSpace, TRUE)

\* Lines 1707-1735; ts stands for the time and the random bytes of the id.
createAxisGoal(input, ts) ==
    [id |-> "goal_" \o ToString(ts),
     name |-> TrimmedText(Field(input, "name")),
     level |-> normalizeGoalLevel(TrimmedText(Field(input, "level"))),
     completed |-> FALSE]

OrStudy(slug) == IF slug = "" THEN "study" ELSE slug

\* Lines 1737-1771.
DailyGoalTask(goal) ==
    [id |-> "task_goal_" \o goal.id, task_name |-> goal.name,
     task_category |-> OrStudy(goalSlug(goal.name)), completed |-> FALSE,
     fromDailyGoal |-> TRUE, goalId |-> goal.id]

SyncGoalTask(task, goal) ==
    [task EXCEPT !.task_name = IF goal.name # "" THEN goal.name ELSE @,
                 !.task_category = IF goalSlug(goal.name) # "" THEN goalSlug(goal.name) ELSE @]

IsGoalTask(task, goalId) == task.fromDailyGoal /\ task.goalId = goalId

ensureDailyGoalTask(d, goal) ==
    IF goal.level # "daily" THEN d
    ELSE IF ~\E i \in 1..Len(d.tasks) : IsGoalTask(d.tasks[i], goal.id)
    THEN [d EXCEPT !.tasks = Append(@, DailyGoalTask(goal))]
    ELSE [d EXCEPT !.tasks[Least({i \in 1..Len(d.tasks) : IsGoalTask(d.tasks[i], goal.id)})] =
                       SyncGoalTask(@, goal)]

\* Lines 1773-1787.
RemovedTaskIds(d, goalId) ==
    {d.tasks[i].id : i \in {j \in 1..Len(d.tasks) : IsGoalTask(d.tasks[j], goalId)}} \ {""}

\* A removal that leaves the schedule as it is.
removeDailyGoalTasksOnly(d, goalId) ==
    [d EXCEPT !.tasks = SelectSeq(@, LAMBDA t : ~IsGoalTask(t, goalId))]

removeDailyGoalTasks(d, goalId) ==
    [d EXCEPT !.tasks = SelectSeq(@, LAMBDA t : ~IsGoalTask(t, goalId)),
              !.schedule = SelectSeq(@, LAMBDA b : b.taskId \notin RemovedTaskIds(d, goalId))]

\* Lines 2860-2876: the patch of update_goal on the fields kept.
PatchGoal(goal, patch) ==
    [goal EXCEPT
       !.name = IF Has(patch, "name") THEN TrimmedText(patch.f["name"]) ELSE @,
       !.level = IF Has(patch, "level")
                 THEN normalizeGoalLevel(TrimmedText(patch.f["level"])) ELSE @,
       !.completed = IF Has(patch, "completed") THEN patch.f["completed"].s = "true" ELSE @]

\* An update_goal that creates the daily task and never removes it.
FollowGoalLevelAddsOnly(d, prevLevel, goal) ==
    IF goal.level = "daily" THEN ensureDailyGoalTask(d, goal) ELSE d

\* Lines 2881-2888: the daily task follows the goal's level.
FollowGoalLevel(d, prevLevel, goal) ==
    IF prevLevel = "daily" /\ goal.level # "daily" THEN removeDailyGoalTasks(d, goal.id)
    ELSE IF goal.level = "daily" THEN ensureDailyGoalTask(d, goal)
    ELSE d

\* Lines 2908-2916: tasks of a deleted goal lose the link and its category.
UnlinkTask(task, goalId, slug) ==
    [task EXCEPT !.goalId = IF @ = goalId THEN Null ELSE @,
                 !.task_category = IF @ = slug THEN "study" ELSE @]

UnlinkGoal(d, goal) ==
    IF goalSlug(goal.name) = "" THEN d
    ELSE [d EXCEPT !.tasks = [i \in 1..Len(@) |-> UnlinkTask(@[i], goal.id, goalSlug(goal.name))]]

DropGoal(d, goal) ==
    UnlinkGoal(IF goal.level = "daily" THEN removeDailyGoalTasks(d, goal.id) ELSE d, goal)

(***************************************************************************)
(* Dates.  An instant is a number of seconds since the epoch; the texts    *)
(* are ISO-8601 UTC date-times of January 2026 with whole seconds.         *)
(***************************************************************************)
NaN == 0 - 1
JanuaryFirst == 1767225600
SecondsPerDay == 86400

IsDigits(text) == text # "" /\ \A i \in 1..Len(text) : At(text, i) \in DigitChars
Num(text, from, to) == DigitsValue(Slice(text, from, to), 0)

\* "2026-01-DDTHH:MM:SSZ" or "2026-01-DDTHH:MM:SS.mmmZ"
IsIsoText(x) ==
    /\ Len(x) \in {20, 24}
    /\ Slice(x, 1, 8) = "2026-01-" /\ At(x, 11) = "T" /\ At(x, 14) = ":" /\ At(x, 17) = ":"
    /\ At(x, Len(x)) = "Z"
    /\ IsDigits(Slice(x, 9, 10)) /\ Num(x, 9, 10) \in 1..31
    /\ IsDigits(Slice(x, 12, 13)) /\ Num(x, 12, 13) \in 0..23
    /\ IsDigits(Slice(x, 15, 16)) /\ Num(x, 15, 16) \in 0..59
    /\ IsDigits(Slice(x, 18, 19)) /\ Num(x, 18, 19) \in 0..59
    /\ (Len(x) = 24 => At(x, 20) = "." /\ IsDigits(Slice(x, 21, 23)))

\* Date.parse of a text.
DateParse(x) ==
    IF IsIsoText(x)
    THEN JanuaryFirst + (Num(x, 9, 10) - 1) * SecondsPerDay + Num(x, 12, 13) * 3600
         + Num(x, 15, 16) * 60 + Num(x, 18, 19)
    ELSE NaN

\* new Date(value).getTime() of a JSON value: null is the epoch, a number counts
\* milliseconds, an absent property is an invalid date.
DateOf(v) ==
    CASE v.t = "string" -> DateParse(v.s)
      [] v.t = "null" -> 0
      [] v.t = "number" /\ IsIntegerText(v.s) /\ At(v.s, 1) # "-" -> IntegerValue(v.s) \div 1000
      [] OTHER -> NaN

Pad2(n) == IF n < 10 THEN "0" \o ToString(n) ELSE ToString(n)

TimeOfDay(secs) ==
    Pad2(secs \div 3600) \o ":" \o Pad2((secs % 3600) \div 60) \o ":" \o Pad2(secs % 60) \o ".000Z"

\* Date.prototype.toISOString for an instant of January 2026 or of the epoch's day.
toISOString(instant) ==
    IF instant >= JanuaryFirst
    THEN "2026-01-" \o Pad2(((instant - JanuaryFirst) \div SecondsPerDay) + 1) \o "T"
         \o TimeOfDay((instant - JanuaryFirst) % SecondsPerDay)
    ELSE "1970-01-01T" \o TimeOfDay(instant % SecondsPerDay)

(***************************************************************************)
(* rebalance_schedule: the validation of the model's reply.                *)
(***************************************************************************)
\* Lines 2725-2726: parsed = safeParseJSONFromText(reply) || {}, then its blocks.
BlocksOf(parsed) ==
    IF Truthy(parsed) /\ Field(parsed, "blocks").t = "array" THEN parsed.f["blocks"].a ELSE <<>>

\* Lines 2636-2639, 2731: the ids of the unfinished tasks.
UnfinishedIds(d) == {d.tasks[i].id : i \in {j \in 1..Len(d.tasks) : ~d.tasks[j].completed}}

\* A validation that does not look the task up.
BlockKeptAnyTask(b, d) ==
    /\ b.t \in {"object", "array"}
    /\ Field(b, "taskId").t = "string"
    /\ DateOf(Field(b, "start")) # NaN /\ DateOf(Field(b, "end")) # NaN
    /\ DateOf(Field(b, "end")) > DateOf(Field(b, "start"))

\* Lines 2733-2739: the block is kept.
BlockKept(b, d) ==
    /\ b.t \in {"object", "array"}
    /\ Field(b, "taskId").t = "string" /\ Field(b, "taskId").s \in UnfinishedIds(d)
    /\ DateOf(Field(b, "start")) # NaN /\ DateOf(Field(b, "end")) # NaN
    /\ DateOf(Field(b, "end")) > DateOf(Field(b, "start"))

\* Lines 2740-2745.
NormalizedBlock(b) ==
    [kind |-> "task", taskId |-> b.f["taskId"].s,
     start |-> toISOString(DateOf(b.f["start"])), end |-> toISOString(DateOf(b.f["end"]))]

RECURSIVE NormalizedBlocks(_, _)
NormalizedBlocks(blocks, d) ==
    IF blocks = <<>> THEN <<>>
    ELSE IF BlockKept(Head(blocks), d)
    THEN <<NormalizedBlock(Head(blocks))>> \o NormalizedBlocks(Tail(blocks), d)
    ELSE NormalizedBlocks(Tail(blocks), d)

\* The outcome of a tool: the record after it, and its result or its error.
ToolOk(d, result) == [ok |-> TRUE, data |-> d, result |-> result, error |-> ""]
ToolThrew(d, message) == [ok |-> FALSE, data |-> d, result |-> NoMembers, error |-> message]

\* Lines 2727-2752 and 2949-2960; llm is the outcome of the tool's own callLlm.
RebalanceWith(d, blocks, normalized, ts) ==
    IF blocks = <<>> THEN ToolThrew(d, "AI returned no schedule blocks.")
    ELSE IF normalized = <<>> THEN ToolThrew(d, "AI returned invalid schedule blocks.")
    ELSE ToolOk([d EXCEPT !.schedule = normalized, !.lastRebalancedAt = toISOString(JanuaryFirst + ts)],
                [blocksAdded |-> Len(normalized)])

RebalanceBlocks(d, blocks, ts) == RebalanceWith(d, blocks, NormalizedBlocks(blocks, d), ts)

aiRebalanceSchedule(d, llm, ts) ==
    IF llm.threw THEN ToolThrew(d, "LLM request failed")
    ELSE RebalanceBlocks(d, BlocksOf(safeParseJSONFromText(llm.reply)), ts)

(***************************************************************************)
(* executeAssistantTool (lines 2755-2972) as a function of the call, the   *)
(* record, the time and the outcome of the nested model call.              *)
(***************************************************************************)
ASSISTANT_TOOL_NAMES ==
    {"get_snapshot", "list_tasks", "create_task", "update_task", "delete_task",
     "create_goal", "update_goal", "delete_goal", "add_habit", "delete_habit",
     "rebalance_schedule", "get_calendar_links"}

\* Lines 1830-1890.
buildAssistantSnapshot(d) ==
    [tasks |-> d.tasks, goals |-> d.goals, schedule |-> d.schedule,
     fixedBlocks |-> d.fixedBlocks, dailyHabits |-> d.dailyHabits]

\* Lines 2763-2781.
ListTasks(d, input) ==
    IF Truthy(Field(input, "includeCompleted")) THEN d.tasks
    ELSE SelectSeq(d.tasks, LAMBDA t : ~t.completed)

UpdateTask(d, input, idx) ==
    IF idx = 0 THEN ToolThrew(d, "Task not found")
    ELSE ToolOk([d EXCEPT !.tasks[idx] = PatchTask(@, input)],
                [task |-> PatchTask(d.tasks[idx], input)])

\* A delete_task that drops the schedule blocks of the id before it looks for the
\* task.
DeleteTaskEager(d, id) ==
    IF IndexOfId(d.tasks, id) = 0
    THEN ToolThrew([d EXCEPT !.schedule = WithoutTaskBlocks(@, id)], "Task not found")
    ELSE ToolOk([d EXCEPT !.tasks = WithoutId(@, id),
                          !.schedule = WithoutTaskBlocks(@, id)],
                [success |-> TRUE])

\* Lines 2823-2836.
DeleteTask(d, id) ==
    IF IndexOfId(d.tasks, id) = 0 THEN ToolThrew(d, "Task not found")
    ELSE ToolOk([d EXCEPT !.tasks = WithoutId(@, id),
                          !.schedule = WithoutTaskBlocks(@, id)],
                [success |-> TRUE])

CreateGoal(d, goal) ==
    ToolOk(ensureDailyGoalTask([d EXCEPT !.goals = Append(@, goal)], goal), [goal |-> goal])

UpdateGoal(d, input, idx) ==
    IF idx = 0 THEN ToolThrew(d, "Goal not found")
    ELSE ToolOk(FollowGoalLevel([d EXCEPT !.goals[idx] = PatchGoal(@, input)],
                                normalizeGoalLevel(d.goals[idx].level),
                                PatchGoal(d.goals[idx], input)),
                [goal |-> PatchGoal(d.goals[idx], input)])

DeleteGoal(d, id, idx) ==
    IF idx = 0 THEN ToolThrew(d, "Goal not found")
    ELSE ToolOk(DropGoal([d EXCEPT !.goals = WithoutId(@, id)], d.goals[idx]),
                [success |-> TRUE])

NewHabit(input, ts) ==
    [id |-> "habit_" \o ToString(ts), name |-> TrimmedText(Field(input, "name")),
     time |-> TrimmedText(Field(input, "time"))]

DeleteHabit(d, id) ==
    IF IndexOfId(d.dailyHabits, id) = 0 THEN ToolThrew(d, "Habit not found")
    ELSE ToolOk([d EXCEPT !.dailyHabits = WithoutId(@, id)], [success |-> TRUE])

KnownTool(toolName, input, d, ts, llm) ==
    CASE toolName = "get_snapshot" -> ToolOk(d, [snapshot |-> buildAssistantSnapshot(d)])
      [] toolName = "list_tasks" -> ToolOk(d, [tasks |-> ListTasks(d, input)])
      [] toolName = "create_task" ->
           IF ~taskCreateSchema(input) THEN ToolThrew(d, "Invalid create_task arguments")
           ELSE ToolOk([d EXCEPT !.tasks = Append(@, createAxisTask(input, ts))],
                       [task |-> createAxisTask(input, ts)])
      [] toolName = "update_task" ->
           IF ~assistantUpdateTaskSchema(input)
           THEN ToolThrew(d, "Invalid update_task arguments")
           ELSE UpdateTask(d, input, IndexOfId(d.tasks, input.f["id"].s))
      [] toolName = "delete_task" ->
           IF ~IdSchema(input) THEN ToolThrew(d, "Invalid delete_task arguments")
           ELSE DeleteTask(d, input.f["id"].s)
      [] toolName = "create_goal" ->
           IF ~goalCreateSchema(input) THEN ToolThrew(d, "Invalid create_goal arguments")
           ELSE CreateGoal(d, createAxisGoal(input, ts))
      [] toolName = "update_goal" ->
           IF ~goalUpdateSchema(input) THEN ToolThrew(d, "Invalid update_goal arguments")
           ELSE UpdateGoal(d, input, IndexOfId(d.goals, input.f["id"].s))
      [] toolName = "delete_goal" ->
           IF ~IdSchema(input) THEN ToolThrew(d, "Invalid delete_goal arguments")
           ELSE DeleteGoal(d, input.f["id"].s, IndexOfId(d.goals, input.f["id"].s))
      [] toolName = "add_habit" ->
           IF ~habitCreateSchema(input) THEN ToolThrew(d, "Invalid add_habit arguments")
           ELSE ToolOk([d EXCEPT !.dailyHabits = Append(@, NewHabit(input, ts))],
                       [habit |-> NewHabit(input, ts)])
      [] toolName = "delete_habit" ->
           IF ~IdSchema(input) THEN ToolThrew(d, "Invalid delete_habit arguments")
           ELSE DeleteHabit(d, input.f["id"].s)
      [] toolName = "rebalance_schedule" ->
           IF ~assistantRebalanceSchema(input)
           THEN ToolThrew(d, "Invalid rebalance_schedule arguments")
           ELSE aiRebalanceSchedule(d, llm, ts)
      [] toolName = "get_calendar_links" -> ToolOk(d, [token |-> "calendar-token"])

\* A dispatch that answers a name it does not know with an empty result.
ToolOnInputUnknownOk(toolName, input, d, ts, llm) ==
    IF toolName \in ASSISTANT_TOOL_NAMES THEN KnownTool(toolName, input, d, ts, llm)
    ELSE ToolOk(d, NoMembers)

\* Line 2971: no branch took the name.
ToolOnInput(toolName, input, d, ts, llm) ==
    IF toolName \in ASSISTANT_TOOL_NAMES THEN KnownTool(toolName, input, d, ts, llm)
    ELSE ToolThrew(d, "Unknown tool: " \o toolName)

executeAssistantTool(name, args, d, ts, llm) ==
    ToolOnInput(Trim(name), ToolInput(args), d, ts, llm)

(***************************************************************************)
(* The agent turn: POST /api/assistant/agent (lines 3061-3151) and         *)
(* POST /api/assistant/agent/stream (lines 3153-3274).                     *)
(***************************************************************************)
READ_ONLY_TOOLS == {"get_snapshot", "list_tasks", "get_calendar_links"}
PlanLimit == 6
GEMINI_MAX_RETRIES == 3

\* sseSend(res, event, payload)
Ev(event, stage, tool, ok, text) ==
    [event |-> event, stage |-> stage, tool |-> tool, ok |-> ok, text |-> text]

\* A handler that ends the stream without the result event.
DoneAlone(reply, toolResults) == << Ev("done", "", "", TRUE, "") >>

\* Lines 3237-3238 and 3265-3266: the result event carries the reply and the
\* results of the tools; done follows it.
DoneEvents(reply, toolResults) ==
    << [event |-> "result", stage |-> "", tool |-> "", ok |-> TRUE, text |-> reply,
        toolResults |-> toolResults],
       Ev("done", "", "", TRUE, "") >>

\* An onToken that writes the first delta of a chunk only.
TokensFirstOnly(deltas) ==
    IF deltas = <<>> THEN <<>> ELSE << Ev("token", "", "", TRUE, deltas[1]) >>

\* Line 3253: onToken writes one token event for each delta, in order.
Tokens(deltas) == [i \in 1..Len(deltas) |-> Ev("token", "", "", TRUE, deltas[i])]

RECURSIVE Joined(_)
Joined(deltas) == IF deltas = <<>> THEN "" ELSE Head(deltas) \o Joined(Tail(deltas))

\* String(call?.name || "").trim()
CallName(call) == TrimmedText(Field(call, "name"))

\* The turn ends without a reply: res.status(status).json({ error }), or the
\* error event of the stream.
Failed(t, status, message) ==
    [t EXCEPT !.pc = "ended", !.response = [status |-> status, error |-> message, reply |-> ""]]

\* callLlm or callLlmStream is called for the provider given: the log keeps the
\* call, the adapter it dispatches to (lines 805-809, 1276-1279) and the number
\* of tools that had run.
LlmCall(t, call, provider, ran) ==
    [t EXCEPT !.llmCalls = Append(@, [call |-> call, adapter |-> LlmAdapter(provider),
                                      after |-> ran])]

\* Line 284: the repair call of callLlmWithJsonRepair is issued when the first
\* reply did not validate.
RepairCall(t, j, call) == IF j.pc = "repair" THEN LlmCall(t, call, t.provider, Len(t.trace)) ELSE t

\* Lines 2949-2952, 2629-2630 and 2717: rebalance_schedule calls the model for
\* the provider it resolves from the record, unless its arguments were rejected.
NestedCall(t, name, args, d, ran) ==
    IF name = "rebalance_schedule" /\ assistantRebalanceSchema(ToolInput(args))
    THEN LlmCall(t, "rebalance", resolveProviderForUserData(d), ran)
    ELSE t

\* A handler that goes on with an empty plan when the planner's reply is invalid.
PlanOutcomeLenient(t, result) ==
    IF ~result.ok
    THEN [t EXCEPT !.pc = "acting", !.planReply = "Sorry, something went wrong.", !.idx = 1]
    ELSE [t EXCEPT !.pc = "acting",
                   !.planReply = result.data.f["assistant_reply"].s,
                   !.toolCalls = FirstN(result.data.f["tool_calls"].a, PlanLimit),
                   !.idx = 1]

\* A handler that takes every call of the plan.
PlanOutcomeUncapped(t, result) ==
    IF ~result.ok
    THEN Failed(t, 502, "Assistant returned invalid JSON.")
    ELSE [t EXCEPT !.pc = "acting",
                   !.planReply = result.data.f["assistant_reply"].s,
                   !.toolCalls = result.data.f["tool_calls"].a,
                   !.idx = 1]

\* Lines 3088-3094 and 3191-3199: what the handler does with planResult.
PlanOutcome(t, result) ==
    IF ~result.ok
    THEN Failed(t, 502, "Assistant returned invalid JSON.")
    ELSE [t EXCEPT !.pc = "acting",
                   !.planReply = result.data.f["assistant_reply"].s,
                   !.toolCalls = FirstN(result.data.f["tool_calls"].a, PlanLimit),
                   !.idx = 1]

\* A loop that marks the record as changed after every call that succeeds.
ToolRanMarksAll(t, name, outcome, before, llm) ==
    [t EXCEPT
       !.idx = @ + 1,
       !.toolResults = Append(@, [name |-> name, ok |-> outcome.ok,
                                  result |-> outcome.result, error |-> outcome.error]),
       !.changed = @ \/ outcome.ok,
       !.trace = Append(@, [idx |-> t.idx, name |-> name, ok |-> outcome.ok,
                            error |-> outcome.error, before |-> before,
                            after |-> outcome.data, llm |-> llm])]

\* A loop that pushes a result for the calls that succeed only.
ToolRanKeepsSuccesses(t, name, outcome, before, llm) ==
    [t EXCEPT
       !.idx = @ + 1,
       !.toolResults = IF outcome.ok
                       THEN Append(@, [name |-> name, ok |-> TRUE,
                                       result |-> outcome.result, error |-> ""])
                       ELSE @,
       !.changed = @ \/ (outcome.ok /\ name \notin READ_ONLY_TOOLS),
       !.trace = Append(@, [idx |-> t.idx, name |-> name, ok |-> outcome.ok,
                            error |-> outcome.error, before |-> before,
                            after |-> outcome.data, llm |-> llm])]

\* Lines 3098-3113 and 3205-3224: one iteration of the tool loop that runs the
\* tool; the trace keeps, for every executed call, the record before and after.
ToolRan(t, name, outcome, before, llm) ==
    [t EXCEPT
       !.idx = @ + 1,
       !.toolResults = Append(@, [name |-> name, ok |-> outcome.ok,
                                  result |-> outcome.result, error |-> outcome.error]),
       !.changed = @ \/ (outcome.ok /\ name \notin READ_ONLY_TOOLS),
       !.trace = Append(@, [idx |-> t.idx, name |-> name, ok |-> outcome.ok,
                            error |-> outcome.error, before |-> before,
                            after |-> outcome.data, llm |-> llm])]

\* A loop that reports the end of a tool only.
ToolEventsDoneOnly(name, outcome) ==
    << Ev("status", "tool_done", name, outcome.ok, outcome.error) >>

\* Lines 3206, 3219 and 3223.
ToolEvents(name, outcome) ==
    << Ev("status", "tool_start", name, TRUE, ""),
       Ev("status", "tool_done", name, outcome.ok, outcome.error) >>

\* Lines 3135-3144 and 3257-3266: the turn completes with its reply.
Completed(t, reply, h) ==
    [t EXCEPT !.pc = "ended", !.reply = reply,
              !.saves = IF t.changed \/ h.changed THEN @ + 1 ELSE @,
              !.response = [status |-> 200, error |-> "", reply |-> reply]]

TurnHistory(reply) ==
    appendAssistantHistory(data.assistantHistory,
                           <<UserEntry(turn.message), AssistantEntry(reply)>>, now)

FinishTurn(reply, h, evs) ==
    /\ data' = [data EXCEPT !.assistantHistory = h.history]
    /\ disk' = IF turn.changed \/ h.changed THEN data' ELSE disk
    /\ turn' = [Completed(turn, reply, h) EXCEPT
                   !.finalFailed = turn.pc = "final" /\ ~jr.result.ok]
    /\ events' = IF turn.endpoint = "stream" THEN events \o evs ELSE events
    /\ now' = now + 1

\* An adapter that never hands the signal to fetch: nothing rejects.
SignalIgnored(aborted) == FALSE

\* fetch and reader.read() reject once the signal handed to fetch is aborted.
SignalRejects(aborted) == aborted

(***************************************************************************)
(* The inputs of a turn: the saved record, the replies of the planner, of  *)
(* the nested rebalance call and of the final call.                        *)
(***************************************************************************)
MaxPlanCalls == 2
MaxChunks == 2

SavedRecord ==
    [EmptyData EXCEPT
       !.settings = [aiProvider |-> "gemini"],
       !.tasks = << [id |-> "t1", task_name |-> "Essay", task_category |-> "study",
                     completed |-> FALSE, fromDailyGoal |-> FALSE, goalId |-> Null],
                    [id |-> "t2", task_name |-> "Laundry", task_category |-> "home",
                     completed |-> TRUE, fromDailyGoal |-> FALSE, goalId |-> Null],
                    [id |-> "task_goal_g1", task_name |-> "Read", task_category |-> "read",
                     completed |-> FALSE, fromDailyGoal |-> TRUE, goalId |-> "g1"] >>,
       !.goals = << [id |-> "g1", name |-> "Read", level |-> "daily", completed |-> FALSE] >>,
       !.dailyHabits = << [id |-> "h1", name |-> "Stretch", time |-> "07:00"] >>,
       !.fixedBlocks = << [start |-> "2026-01-05T09:00:00.000Z",
                           end |-> "2026-01-05T10:00:00.000Z", label |-> "Class"] >>,
       !.schedule = << [kind |-> "task", taskId |-> "t1",
                        start |-> "2026-01-05T11:00:00.000Z",
                        end |-> "2026-01-05T12:00:00.000Z"],
                       [kind |-> "task", taskId |-> "task_goal_g1",
                        start |-> "2026-01-05T18:00:00.000Z",
                        end |-> "2026-01-05T19:00:00.000Z"] >>,
       !.assistantHistory = EarlierTurns(1)]

\* The user prefers gemini.  In the first environment gemini has no key and the
\* server's default, openai, has none either: deepseek is the first provider
\* configured.  In the second the default has no key and gemini has one.
AgentEnvironments ==
    { [LLM_PROVIDER |-> "openai", AI_PROVIDER |-> "", DEEPSEEK_API_KEY |-> "sk-live",
       OPENAI_API_KEY |-> "", GEMINI_API_KEY |-> ""],
      [LLM_PROVIDER |-> "", AI_PROVIDER |-> "", DEEPSEEK_API_KEY |-> "",
       OPENAI_API_KEY |-> "", GEMINI_API_KEY |-> "sk-live"] }

Messages == {"Plan my week"}

\* The tool calls a plan is made of.
CallTexts ==
    { "{\"name\":\"list_tasks\"}",
      "{\"name\":\"delete_task\",\"arguments\":{\"id\":\"t1\"}}",
      "{\"name\":\"fly_to_moon\",\"arguments\":{}}",
      "{\"name\":\"  \",\"arguments\":{\"id\":\"t1\"}}",
      "{\"name\":\"rebalance_schedule\",\"arguments\":{\"horizonDays\":3}}",
      "{\"name\":\"create_task\",\"arguments\":{\"task_name\":\"Call mum\"}}",
      "{\"name\":\" update_task \",\"arguments\":{\"id\":\"t1\",\"completed\":true}}",
      "{\"name\":\"create_goal\",\"arguments\":{\"name\":\"Run 5k\",\"level\":\"Day\"}}",
      "{\"name\":\"delete_goal\",\"arguments\":{\"id\":\"g1\"}}",
      "{\"name\":\"add_habit\",\"arguments\":{\"name\":\"Walk\",\"time\":7}}" }

\* A plan of seven calls: one more than the handler takes.
LongPlan ==
    << "{\"name\":\"get_snapshot\"}",
       "{\"name\":\"update_goal\",\"arguments\":{\"id\":\"g1\",\"level\":\"weekly\"}}",
       "{\"name\":\"Delete_Task\",\"arguments\":{\"id\":\"t2\"}}",
       "{\"name\":\"delete_habit\",\"arguments\":{\"id\":\"h1\"}}",
       "{\"name\":\"get_calendar_links\",\"arguments\":null}",
       "{\"name\":\"add_habit\",\"arguments\":{\"name\":\"Walk\",\"time\":\"07:30\"}}",
       "{\"name\":\"create_task\",\"arguments\":{\"task_name\":\"Seventh\"}}" >>

CallSeqs ==
    UNION {[1..n -> CallTexts] : n \in 0..MaxPlanCalls} \cup {LongPlan}

RECURSIVE CommaJoined(_)
CommaJoined(texts) ==
    IF texts = <<>> THEN ""
    ELSE IF Len(texts) = 1 THEN Head(texts)
    ELSE Head(texts) \o "," \o CommaJoined(Tail(texts))

PlanText(calls) ==
    "{\"assistant_reply\":\"On it.\",\"tool_calls\":[" \o CommaJoined(calls) \o "]}"

InvalidPlans == {"I cannot plan that.", "{\"assistant_reply\":\"\",\"tool_calls\":[]}"}

PlanReplies ==
    {PlanText(calls) : calls \in CallSeqs} \cup {"{\"assistant_reply\":\"Hello!\"}"}
    \cup InvalidPlans

PlanRepairReplies ==
    { "~~~json\n" \o PlanText(<<"{\"name\":\"list_tasks\"}">>) \o "\n~~~",
      "{\"assistant_reply\":\"Hello again!\"}",
      "{\"tool_calls\":[{\"name\":\"delete_task\",\"arguments\":{\"id\":\"t1\"}}]}" }

FinalReplyTexts == {"{\"reply\":\"All done.\"}", "Done!"}
FinalRepairTexts == {"{\"reply\":\"Done.\"}", "{\"reply\":\"\"}"}

\* The outcome of the callLlm of rebalance_schedule.
NoLlm == [threw |-> FALSE, reply |-> ""]
RebalanceReplies ==
    { "{\"blocks\":[{\"taskId\":\"t1\",\"start\":\"2026-01-05T13:00:00Z\",\"end\":\"2026-01-05T14:00:00Z\"}]}",
      "{\"blocks\":[{\"taskId\":\"t1\",\"start\":\"2026-01-05T09:30:00Z\",\"end\":\"2026-01-05T10:30:00Z\"}]}",
      "Here you go: {\"blocks\":[{\"taskId\":\"t1\",\"start\":\"2026-01-05T09:00:00Z\",\"end\":\"2026-01-05T09:45:00Z\"},{\"taskId\":\"task_goal_g1\",\"start\":\"2026-01-06T08:00:00.000Z\",\"end\":\"2026-01-06T08:30:00.000Z\"}]}",
      "{\"blocks\":[{\"taskId\":\"t2\",\"start\":\"2026-01-05T13:00:00Z\",\"end\":\"2026-01-05T14:00:00Z\"},{\"taskId\":\"t1\",\"start\":\"2026-01-05T14:00:00Z\",\"end\":\"2026-01-05T14:00:00Z\"},{\"taskId\":\"t1\",\"start\":\"tomorrow\",\"end\":\"2026-01-05T14:00:00Z\"},7]}",
      "{\"blocks\":[{\"taskId\":\"t1\",\"start\":\"2026-01-05T13:00:00Z\",\"end\":\"2026-01-05T16:00:00Z\"},{\"taskId\":\"task_goal_g1\",\"start\":\"2026-01-05T15:00:00Z\",\"end\":\"2026-01-05T16:00:00Z\"}]}",
      "{\"blocks\":[]}",
      "I could not build a schedule." }

NestedOutcomes(name) ==
    IF name = "rebalance_schedule"
    THEN {[threw |-> FALSE, reply |-> r] : r \in RebalanceReplies}
         \cup {[threw |-> TRUE, reply |-> ""]}
    ELSE {NoLlm}

\* What one reader.read() of the upstream stream yields: the deltas of the chunk
\* and whether it holds the end marker of the stream.
StreamChunks ==
    { [deltas |-> <<"Hel">>, done |-> FALSE], [deltas |-> <<"lo", "!">>, done |-> FALSE],
      [deltas |-> <<>>, done |-> FALSE], [deltas |-> <<"Bye">>, done |-> TRUE],
      [deltas |-> <<>>, done |-> TRUE] }

Init ==
    /\ \E env \in AgentEnvironments : config = LoadConfig(env)
    /\ prov = ProvIdleValue
    /\ disk = SavedRecord /\ turn = TurnIdleValue /\ events = <<>>
    /\ data = EmptyData /\ now = 2 /\ histLog = <<>> /\ histCalls = 0
    /\ ExtractIdle /\ JsonIdle /\ AdapterIdle /\ OthersIdle

agentFrame == <<extractVars, jrParts, histLog, histCalls, config, prov, adapterVars, otherVars>>

\* Lines 3066-3086 and 3161-3189: the request arrives; the record is loaded and
\* the planner call is issued.
AgentStart ==
    /\ turn.pc = "idle"
    /\ \E endpoint \in {"json", "stream"}, message \in Messages :
          /\ turn' = LlmCall([turn EXCEPT !.pc = "planning", !.endpoint = endpoint,
                                          !.message = message,
                                          !.provider = resolveProviderForUserData(disk),
                                          !.loaded = ensureAxisUserDataShape(disk)],
                              "plan", resolveProviderForUserData(disk), 0)
          /\ events' = IF endpoint = "stream"
                       THEN << Ev("meta", "", "", TRUE, resolveProviderForUserData(disk)),
                               Ev("status", "planning", "", TRUE, "") >>
                       ELSE events
    /\ data' = ensureAxisUserDataShape(disk)
    /\ JrStart("assistantPlannerResponseSchema")
    /\ UNCHANGED <<disk, now, agentFrame>>

\* The planner's first reply, and the reply of its repair call.
AgentPlanReply ==
    /\ turn.pc = "planning"
    /\ \E raw \in PlanReplies : JrFirstReply(raw)
    /\ turn' = RepairCall(turn, jr', "plan-repair")
    /\ UNCHANGED <<data, now, disk, events, agentFrame>>

AgentPlanRepair ==
    /\ turn.pc = "planning"
    /\ \E raw \in PlanRepairReplies : JrRepairReply(raw)
    /\ UNCHANGED <<data, now, agentVars, agentFrame>>

\* callLlm rejects inside callLlmWithJsonRepair: the handler's catch answers
\* (lines 3146-3149, 3267-3270).
AgentLlmThrow ==
    /\ turn.pc \in {"planning", "final"}
    /\ JrThrow
    /\ turn' = Failed(turn, 500, "Upstream API error. (status 500)")
    /\ events' = IF turn.endpoint = "stream"
                 THEN Append(events, Ev("error", "", "", FALSE, turn'.response.error))
                 ELSE events
    /\ UNCHANGED <<data, now, disk, agentFrame>>

\* Lines 3088-3094 and 3191-3201: callLlmWithJsonRepair has returned the plan.
AgentPlanned ==
    /\ turn.pc = "planning" /\ jr.pc = "done"
    /\ turn' = [PlanOutcome(turn, jr.result) EXCEPT
                   !.planFailed = ~jr.result.ok,
                   !.planned = IF jr.result.ok THEN jr.result.data.f["tool_calls"].a ELSE <<>>]
    /\ events' = IF turn.endpoint # "stream" THEN events
                 ELSE IF turn'.pc = "ended"
                 THEN Append(events, Ev("error", "", "", FALSE, turn'.response.error))
                 ELSE Append(events, Ev("status", "acting", "", TRUE, ""))
    /\ jr' = JrIdleValue
    /\ UNCHANGED <<data, now, disk, agentFrame>>

\* A tool that writes the record it has changed to the user's file.
PersistedByTool(saved, outcome) == IF outcome.ok THEN outcome.data ELSE saved

\* Lines 2755-2962: a tool changes the record in memory and never calls
\* saveUserData; the file keeps what it held.
Persisted(saved, outcome) == saved

ToolStep(name, outcome, llm) ==
    /\ data' = outcome.data
    /\ disk' = Persisted(disk, outcome)
    /\ turn' = ToolRan(NestedCall(turn, name, Field(turn.toolCalls[turn.idx], "arguments"),
                                  data, Len(turn.trace)),
                       name, outcome, data, llm)
    /\ events' = IF turn.endpoint = "stream" THEN events \o ToolEvents(name, outcome)
                 ELSE events

\* Lines 3096-3114 and 3203-3225: the next call of the tool loop.
AgentTool ==
    /\ turn.pc = "acting" /\ turn.idx <= Len(turn.toolCalls)
    /\ IF CallName(turn.toolCalls[turn.idx]) = ""
       THEN /\ turn' = [turn EXCEPT !.idx = @ + 1]
            /\ UNCHANGED <<data, events, disk>>
       ELSE \E llm \in NestedOutcomes(CallName(turn.toolCalls[turn.idx])) :
               ToolStep(CallName(turn.toolCalls[turn.idx]),
                        executeAssistantTool(CallName(turn.toolCalls[turn.idx]),
                                             Field(turn.toolCalls[turn.idx], "arguments"),
                                             data, now, llm),
                        llm)
    /\ now' = now + 1
    /\ UNCHANGED <<jr, agentFrame>>

\* A handler that always asks the model for the final reply.
SecondCallAlways(toolCalls) == TRUE

\* Lines 3118 and 3227: if (toolCalls.length), if (!toolCalls.length).
SecondCallNeeded(toolCalls) == Len(toolCalls) > 0

\* Lines 3116, 3135-3144 and 3227-3240: the plan held no tool call, the planner's
\* reply is the reply of the turn.
AgentNoTools ==
    /\ turn.pc = "acting" /\ turn.idx > Len(turn.toolCalls)
    /\ ~SecondCallNeeded(turn.toolCalls)
    /\ FinishTurn(turn.planReply, TurnHistory(turn.planReply),
                  << Ev("token", "", "", TRUE, turn.planReply) >>
                  \o DoneEvents(turn.planReply, turn.toolResults))
    /\ UNCHANGED <<jr, agentFrame>>

\* Lines 3118-3128 and 3242-3255: the second call of the model is issued.
AgentRespond ==
    /\ turn.pc = "acting" /\ turn.idx > Len(turn.toolCalls)
    /\ SecondCallNeeded(turn.toolCalls)
    /\ IF turn.endpoint = "json"
       THEN /\ JrStart("assistantFinalResponseSchema")
            /\ turn' = LlmCall([turn EXCEPT !.pc = "final"], "final", turn.provider,
                                Len(turn.trace))
            /\ UNCHANGED events
       ELSE /\ turn' = LlmCall([turn EXCEPT !.pc = "streaming",
                                            !.stream = [phase |-> "fetch", attempt |-> 1,
                                                        full |-> "", chunks |-> 0]],
                                "stream", turn.provider, Len(turn.trace))
            /\ events' = Append(events, Ev("status", "responding", "", TRUE, ""))
            /\ UNCHANGED jr
    /\ UNCHANGED <<data, now, disk, agentFrame>>

\* The final call's first reply, and the reply of its repair call.
AgentFinalReply ==
    /\ turn.pc = "final"
    /\ \E raw \in FinalReplyTexts : JrFirstReply(raw)
    /\ turn' = RepairCall(turn, jr', "final-repair")
    /\ UNCHANGED <<data, now, disk, events, agentFrame>>

AgentFinalRepair ==
    /\ turn.pc = "final"
    /\ \E raw \in FinalRepairTexts : JrRepairReply(raw)
    /\ UNCHANGED <<data, now, agentVars, agentFrame>>

FinalReply(result, planReply) == IF result.ok THEN result.data.f["reply"].s ELSE planReply

\* Lines 3130-3144: the final call has returned.
AgentFinalDone ==
    /\ turn.pc = "final" /\ jr.pc = "done"
    /\ FinishTurn(FinalReply(jr.result, turn.planReply),
                  TurnHistory(FinalReply(jr.result, turn.planReply)), <<>>)
    /\ jr' = JrIdleValue
    /\ UNCHANGED agentFrame

\* Line 3160: the client's connection closes, abort.abort().  The listener runs
\* while the handler awaits: not between the end of the tool loop and the step
\* that follows it.
AgentAbort ==
    /\ turn.endpoint = "stream" /\ turn.pc \notin {"idle", "ended"} /\ ~turn.aborted
    /\ ~(turn.pc = "acting" /\ turn.idx > Len(turn.toolCalls))
    /\ turn' = [turn EXCEPT !.aborted = TRUE,
                            !.abortedIn = IF turn.pc = "streaming" THEN turn.stream.phase
                                          ELSE turn.pc,
                            !.abortedAt = Len(events),
                            !.abortedCalls = Len(turn.llmCalls)]
    /\ UNCHANGED <<jr, data, now, disk, events, agentFrame>>

\* callLlmStream: fetch resolves with the response.
StreamResponse ==
    /\ turn.pc = "streaming" /\ turn.stream.phase = "fetch"
    /\ ~SignalRejects(turn.aborted)
    /\ turn' = [turn EXCEPT !.stream.phase = "reading", !.stream.chunks = 0]
    /\ UNCHANGED <<jr, data, now, disk, events, agentFrame>>

\* reader.read() yields a chunk; every delta decoded from it is written as a token.
StreamChunk ==
    /\ turn.pc = "streaming" /\ turn.stream.phase = "reading"
    /\ ~SignalRejects(turn.aborted)
    /\ turn.stream.chunks < MaxChunks
    /\ \E chunk \in StreamChunks :
          /\ turn' = [turn EXCEPT !.stream.full = @ \o Joined(chunk.deltas),
                                  !.stream.chunks = @ + 1,
                                  !.stream.phase = IF chunk.done THEN "closing" ELSE @]
          /\ events' = events \o Tokens(chunk.deltas)
    /\ UNCHANGED <<jr, data, now, disk, agentFrame>>

\* reader.read() reports the end of the body.
StreamEof ==
    /\ turn.pc = "streaming" /\ turn.stream.phase = "reading"
    /\ ~SignalRejects(turn.aborted)
    /\ turn' = [turn EXCEPT !.stream.phase = "closing"]
    /\ UNCHANGED <<jr, data, now, disk, events, agentFrame>>

\* fetch or reader.read() rejects with the AbortError (line 3268).
StreamAborted ==
    /\ turn.pc = "streaming" /\ turn.stream.phase \in {"fetch", "reading"}
    /\ SignalRejects(turn.aborted)
    /\ turn' = Failed(turn, 0, "Client disconnected.")
    /\ events' = Append(events, Ev("error", "", "", FALSE, "Client disconnected."))
    /\ UNCHANGED <<jr, data, now, disk, agentFrame>>

\* The upstream request fails for another reason and is not retried.
StreamFail ==
    /\ turn.pc = "streaming" /\ turn.stream.phase \in {"fetch", "reading"}
    /\ ~SignalRejects(turn.aborted)
    /\ turn' = Failed(turn, 0, "Upstream API error. (status 400)")
    /\ events' = Append(events, Ev("error", "", "", FALSE, turn'.response.error))
    /\ UNCHANGED <<jr, data, now, disk, agentFrame>>

\* Lines 1187-1217 of callGeminiStream: a retryable failure of an attempt that is
\* not the last one is followed by a delay.
StreamRetry ==
    /\ turn.pc = "streaming" /\ turn.stream.phase = "fetch"
    /\ ~SignalRejects(turn.aborted)
    /\ LlmAdapter(turn.provider) = "gemini" /\ turn.stream.attempt < GEMINI_MAX_RETRIES
    /\ turn' = [turn EXCEPT !.stream.phase = "delay"]
    /\ UNCHANGED <<jr, data, now, disk, events, agentFrame>>

\* The delay is over: the next attempt.
StreamDelayOver ==
    /\ turn.pc = "streaming" /\ turn.stream.phase = "delay"
    /\ turn' = [turn EXCEPT !.stream.phase = "fetch", !.stream.attempt = @ + 1]
    /\ UNCHANGED <<jr, data, now, disk, events, agentFrame>>

\* The reader has stopped: callGeminiStream retries an empty reply (lines
\* 1256-1267), otherwise the text is returned and the turn completes.
StreamReturn ==
    /\ turn.pc = "streaming" /\ turn.stream.phase = "closing"
    /\ IF LlmAdapter(turn.provider) = "gemini" /\ turn.stream.full = ""
       THEN /\ IF turn.stream.attempt < GEMINI_MAX_RETRIES
               THEN /\ turn' = [turn EXCEPT !.stream.phase = "delay"]
                    /\ UNCHANGED events
               ELSE /\ turn' = Failed(turn, 0, "Gemini streaming reply empty")
                    /\ events' = Append(events, Ev("error", "", "", FALSE,
                                                   "Gemini streaming reply empty"))
            /\ UNCHANGED <<data, now, disk>>
       ELSE FinishTurn(turn.stream.full, TurnHistory(turn.stream.full),
                       DoneEvents(turn.stream.full, turn.toolResults))
    /\ UNCHANGED <<jr, agentFrame>>

Next ==
    \/ AgentStart \/ AgentPlanReply \/ AgentPlanRepair \/ AgentLlmThrow \/ AgentPlanned
    \/ AgentTool \/ AgentNoTools \/ AgentRespond
    \/ AgentFinalReply \/ AgentFinalRepair \/ AgentFinalDone
    \/ AgentAbort
    \/ StreamResponse \/ StreamChunk \/ StreamEof \/ StreamAborted \/ StreamFail
    \/ StreamRetry \/ StreamDelayOver \/ StreamReturn

Spec == Init /\ [][Next]_vars

(***************************************************************************)
(* One call of executeAssistantTool on a loaded record (SpecTool): the     *)
(* tool loop's iteration (AgentTool) from every pair of a tool name and an *)
(* arguments value below.                                                  *)
(***************************************************************************)
ToolNames == ASSISTANT_TOOL_NAMES \cup {"fly_to_moon", " delete_task "}

ArgTexts ==
    { "{}", "null", "[]", "\"t1\"", "7",
      "{\"id\":\"t1\"}", "{\"id\":\"t2\"}", "{\"id\":\"t9\"}", "{\"id\":\"g1\"}",
      "{\"id\":\"h1\"}", "{\"id\":\"\"}", "{\"id\":5}", "{\"id\":null}",
      "{\"id\":\"t1\",\"completed\":true}", "{\"id\":\"t1\",\"task_name\":\"\"}",
      "{\"id\":\"t1\",\"completed\":\"yes\"}", "{\"id\":\"t9\",\"task_name\":\"Essay 2\"}",
      "{\"id\":\"g1\",\"level\":\"weekly\"}", "{\"id\":\"g1\",\"manualProgress\":101}",
      "{\"id\":\"g9\",\"name\":\"Swim\"}", "{\"id\":\"g1\",\"name\":\"\"}",
      "{\"task_name\":\"Call mum\"}", "{\"task_name\":\"\"}", "{\"task_name\":7}",
      "{\"name\":\"Run\",\"level\":\"daily\"}", "{\"name\":\"Run\"}", "{\"name\":\"\"}",
      "{\"name\":\"Walk\",\"time\":\"07:00\"}", "{\"name\":\"Walk\",\"time\":7}",
      "{\"horizonDays\":0}", "{\"horizonDays\":3,\"maxHoursPerDay\":2}",
      "{\"includeCompleted\":true}" }

CallText(name, args) == "{\"name\":\"" \o name \o "\",\"arguments\":" \o args \o "}"

\* The calls: every name with every arguments value, and a call without arguments.
ToolCalls ==
    {JSONParse(CallText(name, args)).v : name \in ToolNames, args \in ArgTexts}
    \cup {JSONParse("{\"name\":\"" \o name \o "\"}").v : name \in ToolNames}

\* The saved record with a schedule block whose task is gone.
OrphanRecord ==
    [SavedRecord EXCEPT !.schedule = Append(@, [kind |-> "task", taskId |-> "t9",
                                                 start |-> "2026-01-06T11:00:00.000Z",
                                                 end |-> "2026-01-06T12:00:00.000Z"])]

ToolRecords == {SavedRecord, OrphanRecord}

ToolInit ==
    /\ \E record \in ToolRecords, call \in ToolCalls, endpoint \in {"json", "stream"} :
          /\ disk = record /\ data = ensureAxisUserDataShape(record)
          /\ turn = [TurnIdleValue EXCEPT !.pc = "acting", !.endpoint = endpoint,
                                           !.message = "Plan my week",
                                           !.provider = "deepseek",
                                           !.loaded = ensureAxisUserDataShape(record),
                                           !.planReply = "On it.", !.planned = <<call>>,
                                           !.toolCalls = <<call>>, !.idx = 1]
    /\ config = LoadConfig(CHOOSE env \in AgentEnvironments : env.DEEPSEEK_API_KEY # "")
    /\ prov = ProvIdleValue /\ events = <<>>
    /\ now = 2 /\ histLog = <<>> /\ histCalls = 0
    /\ ExtractIdle /\ JsonIdle /\ AdapterIdle /\ OthersIdle

ToolNext == AgentTool

SpecTool == ToolInit /\ [][ToolNext]_vars

(***************************************************************************)
(* One call of a provider adapter (SpecAdapter): callDeepSeek, callOpenAI, *)
(* callGemini and their streaming forms callDeepSeekStream,                *)
(* callOpenAIStream, callGeminiStream.  What the backend answers to each   *)
(* request is an input.                                                    *)
(***************************************************************************)
Adapters == {"deepseek", "openai", "gemini"}

\* Lines 576 and 710 (line 1164 of callGeminiStream is GEMINI_MAX_RETRIES).
OPENAI_MAX_RETRIES == 3

\* String.prototype.includes(p)
Includes(s, p) == IndexOf(s, p) > 0

Err(name, code, message) == [name |-> name, code |-> code, message |-> message]

\* What fetch() rejects with: node-fetch's system errors (code and reason), the
\* native fetch's TypeError, and the AbortError of an aborted signal.
ConnectionReset == Err("FetchError", "ECONNRESET", "read ECONNRESET")
ConnectTimeout == Err("FetchError", "ETIMEDOUT", "connect ETIMEDOUT")
DnsFailure == Err("FetchError", "ENOTFOUND", "getaddrinfo ENOTFOUND api")
ConnectionRefused == Err("FetchError", "ECONNREFUSED", "connect ECONNREFUSED")
FetchFailed == Err("TypeError", "", "fetch failed")
AbortError == Err("AbortError", "", "The operation was aborted.")

NetworkErrors == {ConnectionReset, ConnectTimeout, DnsFailure, ConnectionRefused, FetchFailed}

\* A non-2xx response: its status, error.message of its JSON body ("" when the
\* body has none) and the body's text.
HttpResponses ==
    { [status |-> 400, message |-> "response_format is not supported", text |-> "{..}"],
      [status |-> 400, message |-> "", text |-> "JSON_OBJECT mode unavailable"],
      [status |-> 401, message |-> "Invalid API key", text |-> "{..}"],
      [status |-> 429, message |-> "Rate limit reached", text |-> "{..}"],
      [status |-> 500, message |-> "Internal error", text |-> "{..}"],
      [status |-> 502, message |-> "upstream socket closed", text |-> "{..}"],
      [status |-> 503, message |-> "", text |-> "Service Unavailable"] }

\* A 2xx response to a complete call: the reply text found in the body ("" when
\* there is none) and promptFeedback.blockReason ("" when absent; the Gemini API
\* alone sends one).
CompleteBodies ==
    { [reply |-> " Hi there ", blockReason |-> ""],
      [reply |-> "", blockReason |-> ""],
      [reply |-> "  ", blockReason |-> ""],
      [reply |-> "", blockReason |-> "SAFETY"],
      [reply |-> "Hi", blockReason |-> "OTHER"] }

\* The frames of a 2xx response to a stream call, as the decoder delivers them:
\* a text (a delta, or for Gemini the candidate's text), a block signal, the
\* [DONE] sentinel, or a read that rejects with a network error.
TextFrame(text) == [kind |-> "text", text |-> text]
BlockFrame == [kind |-> "block", text |-> "SAFETY"]
DoneFrame == [kind |-> "done", text |-> ""]
ResetFrame == [kind |-> "reset", text |-> ""]
\* An event of the Responses API that carries the whole output text so far
\* (lines 1090-1098: output[0].content[0].text or output_text).
OutputFrame(text) == [kind |-> "output", text |-> text]

StreamBodies ==
    { <<>>, <<DoneFrame>>, <<TextFrame("Hi")>>,
      <<TextFrame("Hi"), TextFrame("Hi there")>>,
      <<TextFrame("Hi"), DoneFrame, TextFrame("!")>>,
      <<BlockFrame>>, <<TextFrame("Hi"), BlockFrame>>,
      <<TextFrame("Hi"), ResetFrame>>, <<ResetFrame>>,
      <<TextFrame("Hi there"), TextFrame("Hello")>>,
      <<OutputFrame("Hi"), OutputFrame("Hi there")>>,
      <<TextFrame("Hi"), OutputFrame("Hi"), OutputFrame("Hi there")>> }

\* Lines 658, 733 and 1192: the errors the retry loops take for retryable.
\* callOpenAI also retries its own 60 s timeout (an AbortError) and tests the
\* message case-sensitively; the Gemini adapters ignore case.
isRetryable(adapter, stream, err) ==
    CASE adapter = "openai" /\ ~stream ->
            \/ err.code = "ECONNRESET" \/ err.name = "AbortError"
            \/ Includes(err.message, "ETIMEDOUT") \/ Includes(err.message, "ENOTFOUND")
            \/ Includes(err.message, "socket")
      [] adapter = "gemini" ->
            \/ err.code = "ECONNRESET"
            \/ Includes(ToLowerCase(err.message), "etimedout")
            \/ Includes(ToLowerCase(err.message), "enotfound")
            \/ Includes(ToLowerCase(err.message), "socket")
      [] OTHER -> FALSE

\* An adapter without a retry loop.
MaxAttemptsOnce(adapter, stream) == 1

\* Lines 578, 712, 1167: the attempts of the adapter's loop; the DeepSeek
\* adapters and callOpenAIStream have no loop.
MaxAttempts(adapter, stream) ==
    CASE adapter = "openai" /\ ~stream -> OPENAI_MAX_RETRIES
      [] adapter = "gemini" -> GEMINI_MAX_RETRIES
      [] OTHER -> 1

\* Lines 660, 735, 755, 790, 1194, 1215, 1261: const delay = 1000 * attempt.
RetryDelayFlat(attempt) == 1000
RetryDelay(attempt) == 1000 * attempt

\* Line 491: /response_format|json_object|response format/i.test(message)
JsonModeRejected(message) ==
    \/ Includes(ToLowerCase(message), "response_format")
    \/ Includes(ToLowerCase(message), "json_object")
    \/ Includes(ToLowerCase(message), "response format")

UpstreamError(adapter, stream) ==
    CASE adapter = "deepseek" -> "Upstream DeepSeek API error."
      [] adapter = "gemini" -> "Upstream Gemini API error."
      [] adapter = "openai" /\ stream -> "Upstream OpenAI-compatible API error."
      [] OTHER -> "Upstream OpenAI API error."

\* Lines 509-516, 603-608, 749-753, 985-990, 1062-1067, 1206-1211.
HttpError(adapter, stream, resp) ==
    Err("Error", "",
        (IF resp.message # "" THEN resp.message ELSE UpstreamError(adapter, stream))
            \o " (status " \o ToString(resp.status) \o ")")

MissingContent(adapter) ==
    CASE adapter = "deepseek" -> Err("Error", "", "DeepSeek reply missing content")
      [] adapter = "openai" -> Err("Error", "", "OpenAI reply missing content")
      [] OTHER -> Err("Error", "", "Gemini reply missing content")

StreamingReplyEmpty == Err("Error", "", "Gemini streaming reply empty")

Blocked(blockReason) == Err("Error", "", "Gemini blocked the prompt: " \o blockReason)

\* What the adapter has seen as the answer to a request.
Seen(kind, err, status) == [kind |-> kind, err |-> err, status |-> status, text |-> ""]

\* The request of an attempt: whether it asks for strict JSON, and the time
\* waited since the call began.
Request(c, strict) ==
    [attempt |-> c.attempt, strict |-> strict,
     at |-> IF c.waits = <<>> THEN 0 ELSE c.waits[Len(c.waits)].until]

\* The call throws.
Throws(c, err) == [c EXCEPT !.pc = "threw", !.error = err]

\* The loop's "await delay; continue" when the attempt is not the last one and
\* the failure is retryable, else the throw.
RetryOrThrow(c, retryable, err) ==
    IF retryable /\ c.attempt < MaxAttempts(c.adapter, c.stream)
    THEN [c EXCEPT !.pc = "delay",
                   !.waits = Append(@, [after |-> c.attempt, ms |-> RetryDelay(c.attempt),
                                        until |-> (IF c.waits = <<>> THEN 0
                                                   ELSE c.waits[Len(c.waits)].until)
                                                  + RetryDelay(c.attempt)])]
    ELSE Throws(c, err)

AdapterEnvironments ==
    { [LLM_PROVIDER |-> "", AI_PROVIDER |-> "", DEEPSEEK_API_KEY |-> "sk-live",
       OPENAI_API_KEY |-> "sk-live", GEMINI_API_KEY |-> "sk-live"],
      [LLM_PROVIDER |-> "", AI_PROVIDER |-> "", DEEPSEEK_API_KEY |-> "",
       OPENAI_API_KEY |-> "", GEMINI_API_KEY |-> "sk-live"] }

AdapterInit ==
    /\ \E env \in AdapterEnvironments : config = LoadConfig(env)
    /\ prov = ProvIdleValue
    /\ ExtractIdle /\ JsonIdle /\ HistIdle /\ AgentIdle /\ AdapterIdle /\ OthersIdle

adapterFrame == <<extractVars, jsonVars, histVars, provVars, agentVars, wire, otherVars>>

\* The adapter is called: it throws when its key is missing, else it sends the
\* first request (lines 441-474, 532-596, 677-730, 956-980, 1019-1057, 1133-1186).
AdapterStart ==
    /\ adapterCall.pc = "idle"
    /\ \E adapter \in Adapters, stream \in BOOLEAN, expectJSON \in BOOLEAN,
          isResponsesApi \in BOOLEAN :
          /\ stream => ~expectJSON
          /\ isResponsesApi => adapter = "openai" /\ stream
          /\ LET c == [CallIdleValue EXCEPT !.adapter = adapter, !.stream = stream,
                                            !.expectJSON = expectJSON, !.attempt = 1,
                                            !.responses = isResponsesApi]
             IN  adapterCall' =
                   IF AdapterThrowsNotConfigured(adapter)
                   THEN Throws(c, Err("Error", "", NotConfiguredError(adapter)))
                   ELSE [c EXCEPT !.pc = "fetch",
                                  !.requests = <<Request(c, expectJSON)>>]
    /\ UNCHANGED adapterFrame

\* The caller's signal is aborted (the stream adapters only take one).
AdapterAbort ==
    /\ adapterCall.stream /\ adapterCall.pc \in {"fetch", "reading", "delay"}
    /\ ~adapterCall.aborted
    /\ adapterCall' = [adapterCall EXCEPT !.aborted = TRUE]
    /\ UNCHANGED adapterFrame

\* fetch() rejects.  callDeepSeek logs and rethrows (476-482, 498-501); the
\* stream adapters of DeepSeek and OpenAI have no handler; callOpenAI,
\* callGemini and callGeminiStream retry (656-664, 729-742, 1187-1200).
FetchRejects(c, err) ==
    IF c.adapter = "gemini" /\ c.stream /\ err.name = "AbortError"
    THEN Throws(c, err)
    ELSE RetryOrThrow(c, isRetryable(c.adapter, c.stream, err), err)

AdapterFetchError ==
    /\ adapterCall.pc = "fetch"
    /\ \E err \in NetworkErrors \cup {AbortError} :
          /\ adapterCall.aborted => err = AbortError
          /\ err = AbortError =>
                \/ adapterCall.aborted
                \/ adapterCall.adapter = "openai" /\ ~adapterCall.stream
          /\ adapterCall' =
                FetchRejects([adapterCall EXCEPT !.seen = Append(@, Seen("reject", err, 0))],
                             err)
    /\ UNCHANGED adapterFrame

\* An adapter that takes every non-2xx status for retryable.
HttpFailsRetriesAll(c, resp) == RetryOrThrow(c, TRUE, HttpError(c.adapter, c.stream, resp))

\* An adapter that throws on every non-2xx status.
HttpFailsThrows(c, resp) == Throws(c, HttpError(c.adapter, c.stream, resp))

\* The backend answers with a non-2xx status.  callDeepSeek retries a rejected
\* response_format once without it (486-502); callOpenAI throws inside its try,
\* so its catch decides (599-609, 656-664); the Gemini adapters retry the 5xx
\* statuses (744-764, 1202-1221); the other stream adapters throw (982-991,
\* 1059-1068).
HttpFails(c, resp) ==
    CASE c.adapter = "deepseek" /\ ~c.stream ->
            IF /\ c.expectJSON /\ ~c.fallback
               /\ JsonModeRejected(IF resp.message # "" THEN resp.message ELSE resp.text)
            THEN [c EXCEPT !.fallback = TRUE, !.requests = Append(@, Request(c, FALSE))]
            ELSE Throws(c, HttpError(c.adapter, c.stream, resp))
      [] c.adapter = "openai" /\ ~c.stream ->
            RetryOrThrow(c, isRetryable(c.adapter, c.stream,
                                        HttpError(c.adapter, c.stream, resp)),
                         HttpError(c.adapter, c.stream, resp))
      [] c.adapter = "gemini" ->
            RetryOrThrow(c, resp.status >= 500 /\ resp.status < 600,
                         HttpError(c.adapter, c.stream, resp))
      [] OTHER -> Throws(c, HttpError(c.adapter, c.stream, resp))

AdapterHttpError ==
    /\ adapterCall.pc = "fetch" /\ ~adapterCall.aborted
    /\ \E resp \in HttpResponses :
          adapterCall' =
             HttpFails([adapterCall EXCEPT
                          !.seen = Append(@, [Seen("http", Err("", "", resp.message),
                                                   resp.status)
                                              EXCEPT !.text = resp.text])],
                       resp)
    /\ UNCHANGED adapterFrame

\* A callGemini that does not look at promptFeedback.blockReason.
RepliesIgnoringBlock(c, body) ==
    IF body.reply = ""
    THEN RetryOrThrow(c, c.adapter = "gemini", MissingContent(c.adapter))
    ELSE [c EXCEPT !.pc = "returned", !.reply = Trim(body.reply)]

\* A 2xx response to a complete call.  callGemini throws on a block reason
\* (766-773) and retries an empty reply (780-796); the others throw on an empty
\* reply (518-521, 652), callOpenAI inside its try.
Replies(c, body) ==
    CASE c.adapter = "gemini" /\ body.blockReason # "" ->
            Throws(c, Blocked(body.blockReason))
      [] body.reply = "" /\ c.adapter = "gemini" ->
            RetryOrThrow(c, TRUE, MissingContent(c.adapter))
      [] body.reply = "" /\ c.adapter = "openai" ->
            RetryOrThrow(c, isRetryable(c.adapter, c.stream, MissingContent(c.adapter)),
                         MissingContent(c.adapter))
      [] body.reply = "" -> Throws(c, MissingContent(c.adapter))
      [] OTHER -> [c EXCEPT !.pc = "returned", !.reply = Trim(body.reply)]

AdapterReply ==
    /\ adapterCall.pc = "fetch" /\ ~adapterCall.stream
    /\ \E body \in CompleteBodies :
          /\ body.blockReason # "" => adapterCall.adapter = "gemini"
          /\ adapterCall' =
             Replies([adapterCall EXCEPT
                        !.seen = Append(@, Seen(IF body.blockReason # "" THEN "block"
                                                ELSE IF body.reply = "" THEN "empty"
                                                ELSE "text", NoError, 200))],
                     body)
    /\ UNCHANGED adapterFrame

\* A 2xx response to a stream call: the decoder starts on its body.
AdapterStreamOpen ==
    /\ adapterCall.pc = "fetch" /\ adapterCall.stream /\ ~adapterCall.aborted
    /\ \E body \in StreamBodies :
          /\ (\E i \in 1..Len(body) : body[i] = BlockFrame) => adapterCall.adapter = "gemini"
          /\ adapterCall' = [adapterCall EXCEPT !.pc = "reading", !.body = body,
                                             !.full = "", !.last = "",
                                             !.hasContent = FALSE, !.frames = <<>>,
                                             !.seen = Append(@, Seen("ok", NoError, 200))]
    /\ UNCHANGED adapterFrame

\* onToken(delta) after full += delta.
Emit(c, delta) == [c EXCEPT !.full = @ \o delta, !.tokens = Append(@, delta)]

\* The suffix of a text after the one seen before (text.slice(last.length)).
Suffix(text, last) == Slice(text, Len(last) + 1, Len(text))

GeminiTextWhole(c, text) == [Emit(c, text) EXCEPT !.hasContent = TRUE, !.last = text]

\* callGeminiStream, lines 1234-1254: the candidate's text against the last one.
GeminiText(c, text) ==
    [(IF StartsWith(text, c.last)
      THEN IF Len(text) > Len(c.last) THEN Emit(c, Suffix(text, c.last)) ELSE c
      ELSE Emit(c, text))
     EXCEPT !.hasContent = TRUE, !.last = text]

\* callOpenAIStream on the Responses API, lines 1080-1109: a delta event, or
\* the output text so far against lastResponsesText.
ResponsesDelta(c, delta) == [Emit(c, delta) EXCEPT !.last = @ \o delta]

ResponsesOutput(c, maybeText) ==
    IF maybeText # "" /\ StartsWith(maybeText, c.last) /\ Len(maybeText) > Len(c.last)
    THEN [Emit(c, Suffix(maybeText, c.last)) EXCEPT !.last = maybeText]
    ELSE c

\* The consumer of a frame: lines 994-1006 and 1113-1119 (a delta), lines
\* 1080-1109 (the Responses API), lines 1227-1254 (a block reason, else the
\* candidate's text).  An event without the field an adapter reads is skipped.
Consume(c, frame) ==
    CASE frame.kind = "done" -> [c EXCEPT !.pc = "closing"]
      [] frame.kind = "reset" ->
            Throws([c EXCEPT !.seen = Append(@, Seen("read-reject", ConnectionReset, 0))],
                   ConnectionReset)
      [] frame.kind = "block" ->
            IF c.adapter = "gemini"
            THEN Throws([c EXCEPT !.seen = Append(@, Seen("block", NoError, 200))],
                        Blocked(frame.text))
            ELSE c
      [] frame.kind = "output" ->
            IF c.responses THEN ResponsesOutput(c, frame.text) ELSE c
      [] c.adapter = "gemini" -> GeminiText(c, frame.text)
      [] c.responses -> ResponsesDelta(c, frame.text)
      [] OTHER -> Emit(c, frame.text)

\* reader.read() yields the next frame of the body.
AdapterFrame ==
    /\ adapterCall.pc = "reading" /\ ~adapterCall.aborted
    /\ adapterCall.body # <<>>
    /\ adapterCall' = Consume([adapterCall EXCEPT !.body = Tail(@),
                                                  !.frames = Append(@, Head(adapterCall.body))],
                              Head(adapterCall.body))
    /\ UNCHANGED adapterFrame

\* reader.read() reports the end of the body.
AdapterEof ==
    /\ adapterCall.pc = "reading" /\ ~adapterCall.aborted
    /\ adapterCall.body = <<>>
    /\ adapterCall' = [adapterCall EXCEPT !.pc = "closing"]
    /\ UNCHANGED adapterFrame

\* reader.read() rejects because the signal is aborted.
AdapterReadAborted ==
    /\ adapterCall.pc = "reading" /\ adapterCall.aborted
    /\ adapterCall' = Throws([adapterCall EXCEPT
                                !.seen = Append(@, Seen("read-reject", AbortError, 0))],
                             AbortError)
    /\ UNCHANGED adapterFrame

\* The decoder has returned: callGeminiStream retries a stream without content
\* (1256-1267); else the text is returned as it is (1008, 1122, 1269).
AdapterStreamReturn ==
    /\ adapterCall.pc = "closing"
    /\ adapterCall' =
          IF adapterCall.adapter = "gemini" /\ adapterCall.full = ""
             /\ ~adapterCall.hasContent
          THEN RetryOrThrow([adapterCall EXCEPT
                               !.seen = Append(@, Seen("empty", NoError, 200))],
                            TRUE, StreamingReplyEmpty)
          ELSE [adapterCall EXCEPT !.pc = "returned", !.reply = adapterCall.full]
    /\ UNCHANGED adapterFrame

\* The delay is over: the loop's next attempt sends the same payload.  A fetch
\* on an aborted signal sends nothing.
AdapterDelayOver ==
    /\ adapterCall.pc = "delay"
    /\ adapterCall' =
          [adapterCall EXCEPT
             !.pc = "fetch", !.attempt = @ + 1,
             !.requests = IF adapterCall.aborted THEN @
                          ELSE Append(@, Request([adapterCall EXCEPT !.attempt = @ + 1],
                                                 adapterCall.expectJSON))]
    /\ UNCHANGED adapterFrame

AdapterNext ==
    \/ AdapterStart \/ AdapterAbort \/ AdapterFetchError \/ AdapterHttpError
    \/ AdapterReply \/ AdapterStreamOpen \/ AdapterFrame \/ AdapterEof
    \/ AdapterReadAborted \/ AdapterStreamReturn \/ AdapterDelayOver

SpecAdapter == AdapterInit /\ [][AdapterNext]_vars

\* Every step of a call that has not ended is taken in the end: a request is
\* answered or fails, a delay runs out, a body ends.
SpecAdapterFair == SpecAdapter /\ WF_vars(AdapterNext)

(***************************************************************************)
(* One run of a wire decoder (SpecWire): readSseEvents or readJsonLines on *)
(* a byte stream that arrives split into read buffers.                     *)
(***************************************************************************)
MaxReads == 3

\* line.replace(/\r$/, "")
StripCr(line) ==
    IF Len(line) > 0 /\ At(line, Len(line)) = "\r" THEN Slice(line, 1, Len(line) - 1)
    ELSE line

\* dataLines.join("\n")
RECURSIVE JoinLines(_)
JoinLines(lines) ==
    IF Len(lines) = 0 THEN ""
    ELSE IF Len(lines) = 1 THEN lines[1]
    ELSE lines[1] \o "\n" \o JoinLines(Tail(lines))

\* What the consumer is handed: an SSE event, or a parsed line (json).
SseFrame(event, text) == [event |-> event, data |-> text, json |-> JNull]
JsonFrame(value) == [event |-> "", data |-> "", json |-> value]

\* A consumer that never stops the decoding.
KeepGoingAlways(text) == TRUE

\* Lines 995-997 and 1074-1076: the consumers of the stream adapters return
\* false on the sentinel.
KeepGoing(text) == Trim(text) # "[DONE]"

\* Lines 840-850.
dispatch(w) ==
    IF w.dataLines = <<>> THEN [w EXCEPT !.eventName = ""]
    ELSE [w EXCEPT !.dataLines = <<>>, !.eventName = "",
                   !.delivered = Append(@, SseFrame(IF w.eventName = "" THEN "message"
                                                    ELSE w.eventName,
                                                    JoinLines(w.dataLines))),
                   !.stop = ~KeepGoing(JoinLines(w.dataLines))]

\* Lines 862-875: one line of the stream.
SseLine(w, line) ==
    CASE StartsWith(line, "event:") ->
            [w EXCEPT !.eventName = Trim(Slice(line, 7, Len(line)))]
      [] StartsWith(line, "data:") ->
            [w EXCEPT !.dataLines = Append(@, Trim(Slice(line, 6, Len(line))))]
      [] StartsWith(line, ":") -> w
      [] line = "" -> dispatch(w)
      [] OTHER -> w

\* Line 855 and line 910: buffer += decoder.decode(value, { stream: true }).
Unbuffered(w, value) == [w EXCEPT !.buffer = value, !.consumed = @ \o value]
Buffered(w, value) == [w EXCEPT !.buffer = @ \o value, !.consumed = @ \o value]

\* Lines 858-876: the lines the buffer holds in full, until the consumer stops.
RECURSIVE SseDrain(_)
SseDrain(w) ==
    IF w.stop \/ IndexOf(w.buffer, "\n") = 0 THEN w
    ELSE SseDrain(SseLine([w EXCEPT !.buffer = Slice(@, IndexOf(@, "\n") + 1, Len(@))],
                          StripCr(Slice(w.buffer, 1, IndexOf(w.buffer, "\n") - 1))))

\* Lines 879-886: the unterminated tail.
SseLeftover(w, leftover) ==
    IF StartsWith(leftover, "data:")
    THEN [w EXCEPT !.dataLines = Append(@, Trim(Slice(leftover, 6, Len(leftover))))]
    ELSE IF leftover # "" /\ leftover # "[DONE]"
    THEN [w EXCEPT !.dataLines = Append(@, leftover)]
    ELSE w

\* Lines 879-895: the end of the body.
SseEnd(w) ==
    IF w.stop THEN w
    ELSE dispatch(IF w.buffer # "" THEN SseLeftover(w, Trim(StripCr(w.buffer))) ELSE w)

\* Line 917 and line 937.
Normalized(line) == IF StartsWith(line, "data:") THEN Trim(Slice(line, 6, Len(line))) ELSE line

\* Lines 923-930 and 938-939: the callback of callGeminiStream never returns false.
JsonDeliver(w, parsed) ==
    IF Truthy(parsed) THEN [w EXCEPT !.delivered = Append(@, JsonFrame(parsed))] ELSE w

\* Lines 914-930: one line of the stream.
JsonLine(w, normalized) ==
    IF normalized = "" THEN w
    ELSE IF normalized = "[DONE]" THEN [w EXCEPT !.stop = TRUE]
    ELSE JsonDeliver(w, safeParseJSONFromText(normalized))

\* Lines 913-931.
RECURSIVE JsonDrain(_)
JsonDrain(w) ==
    IF w.stop \/ IndexOf(w.buffer, "\n") = 0 THEN w
    ELSE JsonDrain(JsonLine([w EXCEPT !.buffer = Slice(@, IndexOf(@, "\n") + 1, Len(@))],
                            Normalized(Trim(StripCr(
                                Slice(w.buffer, 1, IndexOf(w.buffer, "\n") - 1))))))

\* Lines 934-941: the unterminated tail.
JsonEnd(w) ==
    IF w.stop \/ Trim(StripCr(w.buffer)) = "" THEN w
    ELSE JsonDeliver(w, safeParseJSONFromText(Normalized(Trim(StripCr(w.buffer)))))

\* reader.read() yields a buffer; reader.read() reports the end.
WireFeed(w, value) ==
    IF w.decoder = "readSseEvents" THEN SseDrain(Buffered(w, value))
    ELSE JsonDrain(Buffered(w, value))

WireFinish(w) ==
    [(IF w.decoder = "readSseEvents" THEN SseEnd(w) ELSE JsonEnd(w)) EXCEPT !.pc = "ended"]

\* The byte streams.
SseStreams ==
    { "data: a\n\ndata: b\n\n",
      "event: x\r\ndata: a\r\n\r\ndata: [DONE]\r\n\r\ndata: c\r\n\r\n",
      "data: a\ndata:b\n\n: ping\n\ndata: c",
      "data: a\n\ndata: [DONE]",
      "\n\ndata:a\r\n\n[DONE]" }

JsonStreams ==
    { "{\"a\":1}\n{\"b\":2}\n",
      "data: {\"a\":1}\r\n\r\ndata: [DONE]\r\n{\"c\":3}\r\n",
      "{\"a\":1}\n0\n{\"b\":2}",
      "[{\"a\":1}\n,\n{\"b\":2}]\n[DONE]" }

\* The ways of cutting a text into MaxReads buffers at most (some may be empty).
RECURSIVE Splits(_, _)
Splits(text, n) ==
    IF n = 1 THEN {<<text>>}
    ELSE {<<text>>} \cup
         UNION {{<<SubSeq(text, 1, i)>> \o rest : rest \in Splits(SubSeq(text, i + 1, Len(text)),
                                                                 n - 1)} : i \in 0..Len(text)}

WireStart(decoder, bytes, reads) ==
    [WireIdleValue EXCEPT !.pc = "reading", !.decoder = decoder, !.bytes = bytes,
                          !.reads = reads, !.chunks = reads]

WireInit ==
    /\ \E decoder \in {"readSseEvents", "readJsonLines"} :
          \E bytes \in (IF decoder = "readSseEvents" THEN SseStreams ELSE JsonStreams) :
             \E reads \in Splits(bytes, MaxReads) : wire = WireStart(decoder, bytes, reads)
    /\ adapterCall = CallIdleValue /\ OthersIdle
    /\ ExtractIdle /\ JsonIdle /\ HistIdle /\ ProvIdle /\ AgentIdle

wireFrame == <<extractVars, jsonVars, histVars, provVars, agentVars, adapterCall, otherVars>>

\* Lines 852-877 and 907-932: a pass of the read loop.
WireRead ==
    /\ wire.pc = "reading" /\ ~wire.stop /\ wire.reads # <<>>
    /\ wire' = WireFeed([wire EXCEPT !.reads = Tail(@)], Head(wire.reads))
    /\ UNCHANGED wireFrame

\* Lines 879-895 and 934-946: the loop is left, at the end of the body or because
\* the decoding was stopped.
WireEnd ==
    /\ wire.pc = "reading" /\ (wire.stop \/ wire.reads = <<>>)
    /\ wire' = WireFinish(wire)
    /\ UNCHANGED wireFrame

WireNext == WireRead \/ WireEnd

SpecWire == WireInit /\ [][WireNext]_vars

(***************************************************************************)
(* C5: extractFirstJsonObject returns the minimal balanced substring that  *)
(* starts at the first "{": braces inside double-quoted strings are not    *)
(* counted (a quote preceded by an odd run of backslashes does not end the *)
(* string), the text after the closing brace is ignored, and the result is *)
(* null when there is no "{" or the braces never balance.                  *)
(***************************************************************************)
\* The number of backslashes that directly precede position j, after position q.
BackslashRun(s, q, j) ==
    Cardinality({k \in (q + 1)..(j - 1) : \A m \in k..(j - 1) : At(s, m) = "\\"})

\* The closing quote of the string opened at q: 0 if the string never ends.
StringEnd(s, q) ==
    LET ends == {j \in (q + 1)..Len(s) :
                    At(s, j) = "\"" /\ BackslashRun(s, q, j) % 2 = 0}
    IN  IF ends = {} THEN 0 ELSE Least(ends)

\* The positions from i on that lie outside every double-quoted string.
RECURSIVE OutsideStrings(_, _)
OutsideStrings(s, i) ==
    IF i > Len(s) THEN {}
    ELSE IF At(s, i) = "\"" THEN
        IF StringEnd(s, i) = 0 THEN {} ELSE OutsideStrings(s, StringEnd(s, i) + 1)
    ELSE {i} \cup OutsideStrings(s, i + 1)

MinimalBalanced(s) ==
    LET start == IndexOf(s, "{")
        out == OutsideStrings(s, start)
        Count(c, e) == Cardinality({k \in out : k <= e /\ At(s, k) = c})
        ends == {e \in out : Count("{", e) = Count("}", e)}
    IN  IF start = 0 \/ ends = {} THEN Null
        ELSE SubSeq(s, start, Least(ends))

C5_MinimalBalanced ==
    extractOutput # Unset => extractOutput = MinimalBalanced(extractInput)

\* The example of the claim, and a brace inside a string after an escaped quote.
C5_Witness == extractInput = "{\"a\":1} thanks!" /\ extractOutput = "{\"a\":1}"

(***************************************************************************)
(* callLlmWithJsonRepair: the number of LLM calls and the hard failure.    *)
(***************************************************************************)
\* The first reply has arrived.
JrReplied == jr.pc \in {"repair", "done"}

JrFirstValid == JsonFirstResult(jr.schema, jr.raw).ok

JrRepairValid == SchemaParse(jr.schema, safeParseJSONFromText(jr.repairedRaw)).success

\* C3: callLlmWithJsonRepair never makes more than two LLM calls; when the first
\* reply does not validate against the schema it has made exactly one repair
\* call (two calls in all), none when it validates; and when the repaired reply
\* does not validate either, the result is {ok: false} with no data field.
C3_OneRepairThenHardFailure ==
    /\ jr.calls <= 2
    /\ JrReplied => jr.calls = IF JrFirstValid THEN 1 ELSE 2
    /\ (jr.pc = "done" /\ ~JrFirstValid /\ ~JrRepairValid) =>
          (~jr.result.ok /\ "data" \notin DOMAIN jr.result)

C3_Witness ==
    /\ jr.pc = "done" /\ jr.raw = "I cannot help with that."
    /\ jr.repairedRaw = "Sorry, I cannot." /\ jr.calls = 2 /\ ~jr.result.ok

(***************************************************************************)
(* The extraction pipeline on a schema-valid object wrapped in code fences *)
(* and prose.                                                              *)
(***************************************************************************)
\* The first reply was composed of a schema-valid object and its wrapping.
JrWrapped == JrReplied /\ jrParts.kind = "wrapped"

\* The object of the reply as the schema returns it.
JrIntended == SchemaParse(jr.schema, safeParseJSON(jrParts.obj)).data

\* The object is recovered from the first reply and no repair call is made.
JrRecovered ==
    /\ jr.pc = "done" /\ jr.calls = 1
    /\ jr.result.ok /\ ~jr.result.repaired /\ jr.result.data = JrIntended

\* What stages 1 and 2 of safeParseJSONFromText make of the reply: the value of
\* the whole reply, or else of the reply without its fence markers.
JrUpToFences ==
    OrElse(safeParseJSON(Trim(Compose(jrParts))),
           safeParseJSON(Trim(StripFences(Trim(Compose(jrParts))))))

\* It is a truthy value other than the object.
JrParsesAsOther == Truthy(JrUpToFences) /\ JrUpToFences # safeParseJSON(jrParts.obj)

\* C4 as stated: every reply made of a schema-valid object, code fences and
\* prose is recovered without a repair call.
C4_AnyWrappingRecovered == JrWrapped => JrRecovered

\* C4: a reply made of a schema-valid object, optionally in code fences and with
\* prose around it, is recovered without a repair call, provided the text before
\* the object holds no "{" and neither the reply nor the reply without its fence
\* markers is itself JSON for a truthy value other than the object.
C4_WrappedRecovered ==
    (/\ JrWrapped
     /\ IndexOf(jrParts.pre \o jrParts.open, "{") = 0
     /\ ~JrParsesAsOther) => JrRecovered

C4_Witness ==
    /\ jrParts.kind = "wrapped" /\ jrParts.pre = "Here is the JSON:\n"
    /\ jrParts.open = "~~~json\n" /\ jrParts.close = "\n~~~"
    /\ jrParts.post = "\nTell me {if} that works."
    /\ jrParts.obj = "{ \"reply\" : \"a}b{\", \"x\" : [1, {\"y\" : null}] }"
    /\ JrRecovered

(***************************************************************************)
(* The assistant history.                                                  *)
(***************************************************************************)
\* C2: after any appendAssistantHistory call the history holds at most 20
\* entries, and they are the most recently pushed entries in the order in
\* which they were pushed: the oldest entries are the ones dropped.
C2_HistoryBoundedFifo ==
    histCalls > 0 =>
        /\ Len(data.assistantHistory) <= 20
        /\ data.assistantHistory = LastN(histLog, 20)

C2_Witness ==
    /\ histCalls = 5 /\ Len(histLog) = 30
    /\ Len(data.assistantHistory) = 20
    /\ data.assistantHistory[1] = histLog[11]
    /\ data.assistantHistory[20] = histLog[30]

(***************************************************************************)
(* Provider selection.                                                     *)
(***************************************************************************)
\* The provider has a key that is present and is not the placeholder.
KeyUsable(provider) ==
    /\ provider \in SUPPORTED_LLM_PROVIDERS
    /\ config.keys[provider] \notin {"", Placeholder(provider)}

AnyKeyUsable == \E provider \in SUPPORTED_LLM_PROVIDERS : KeyUsable(provider)

\* The first provider with a usable key in sorted order.
FirstUsable ==
    CHOOSE provider \in SUPPORTED_LLM_PROVIDERS :
        /\ KeyUsable(provider)
        /\ \A other \in SUPPORTED_LLM_PROVIDERS :
              KeyUsable(other) =>
                \E i, j \in 1..3 : /\ SortedProviders[i] = provider
                                    /\ SortedProviders[j] = other
                                    /\ i <= j

\* The provider a resolution was asked for, and the preference of the record,
\* as supported names ("" when there is none).
AskedFor ==
    IF prov.fn = "resolveProviderForRequest"
    THEN normalizeProvider(ProviderOrDefault(prov.requested))
    ELSE ""
Preferred ==
    IF prov.fn = "resolveProviderForUserData" THEN normalizeProvider(prov.pref) ELSE ""

\* The precedence with lastResort as the outcome when no provider is configured.
Precedence(lastResort) ==
    IF KeyUsable(AskedFor) THEN AskedFor
    ELSE IF KeyUsable(Preferred) THEN Preferred
    ELSE IF KeyUsable(EnvDefault) THEN EnvDefault
    ELSE IF AnyKeyUsable THEN FirstUsable
    ELSE lastResort

\* C8 as stated: the resolved provider follows the precedence requested,
\* preference, environment default, first configured provider, and is the
\* environment default when no provider is configured.
C8_EnvDefaultWhenNoneConfigured ==
    prov.pc # "idle" => prov.resolved = Precedence(EnvDefault)

\* C8: the resolved provider follows the precedence requested (if configured),
\* preference of the record (if configured), environment default (if
\* configured), first configured provider in sorted order; when no provider is
\* configured it is the requested provider if a supported one was named, and the
\* environment default otherwise.  Whenever a provider is configured the resolved
\* one is configured, and the result is a function of the inputs.
C8_ProviderPrecedence ==
    prov.pc # "idle" =>
        /\ prov.resolved = Precedence(IF AskedFor # "" THEN AskedFor ELSE EnvDefault)
        /\ AnyKeyUsable => KeyUsable(prov.resolved)

C8_Witness ==
    /\ prov.pc = "resolved" /\ prov.fn = "resolveProviderForRequest"
    /\ prov.requested = "openai" /\ EnvDefault = "gemini"
    /\ ~AnyKeyUsable /\ prov.resolved = "openai"

\* C9: when the provider an adapter call is made for is not configured (its key
\* is missing or is the placeholder), the call fails with the "not configured"
\* error and no request is sent.
C9_NotConfiguredSendsNothing ==
    (prov.pc = "called" /\ ~KeyUsable(prov.adapter)) =>
        /\ prov.error = NotConfiguredError(prov.adapter)
        /\ prov.sent = 0

(***************************************************************************)
(* The tool loop of an agent turn (Spec).                                  *)
(***************************************************************************)
\* The tool loop of the turn is over.
ActingOver == turn.pc \in {"final", "streaming", "ended"}

\* The positions of the plan's calls that were executed.
ExecutedCalls == {turn.trace[k].idx : k \in 1..Len(turn.trace)}

\* The k-th executed call failed as an unknown tool and left the record alone.
UnknownToolError(k) ==
    /\ ~turn.trace[k].ok
    /\ turn.trace[k].error = "Unknown tool: " \o turn.trace[k].name
    /\ turn.trace[k].after = turn.trace[k].before
    /\ turn.toolResults[k] =
          [name |-> turn.trace[k].name, ok |-> FALSE, result |-> NoMembers,
           error |-> "Unknown tool: " \o turn.trace[k].name]

\* C1 as stated: every call among the first 6 of the plan whose name is not in
\* the tool registry produces an error ToolResult, and the other calls are still
\* executed.
C1_UnregisteredNameGetsError ==
    ActingOver =>
        \A i \in 1..Len(turn.toolCalls) :
            CallName(turn.toolCalls[i]) \notin ASSISTANT_TOOL_NAMES =>
                \E k \in 1..Len(turn.trace) : turn.trace[k].idx = i /\ ~turn.trace[k].ok

\* C1: a call among the first 6 of the plan whose trimmed name is not empty and
\* not in the tool registry produces the error ToolResult "Unknown tool: <name>"
\* for that call only and leaves the record as it was, so that every sibling runs
\* on the record it would have found without that call; once the loop is over
\* every call whose trimmed name is not empty has been executed, in order, with
\* one ToolResult each.  A call whose name is blank is skipped without a result.
C1_UnknownToolIsolated ==
    /\ \A k \in 1..Len(turn.trace) :
          /\ turn.trace[k].name \notin ASSISTANT_TOOL_NAMES => UnknownToolError(k)
          /\ turn.trace[k].before = IF k = 1 THEN turn.loaded ELSE turn.trace[k - 1].after
          /\ turn.toolResults[k].ok = turn.trace[k].ok
          /\ k > 1 => turn.trace[k - 1].idx < turn.trace[k].idx
    /\ Len(turn.toolResults) = Len(turn.trace)
    /\ ActingOver =>
          ExecutedCalls = {i \in 1..Len(turn.toolCalls) : CallName(turn.toolCalls[i]) # ""}

C1_Witness ==
    /\ turn.pc = "ended" /\ Len(turn.trace) = 2
    /\ turn.trace[1].name = "fly_to_moon" /\ ~turn.trace[1].ok
    /\ turn.trace[2].name = "delete_task" /\ turn.trace[2].ok
    /\ IndexOfId(data.tasks, "t1") = 0

(***************************************************************************)
(* Cancellation of the streamed final reply (Spec).                        *)
(***************************************************************************)
\* The client disconnected while callLlmStream was in flight and the upstream
\* stream had not ended.
AbortedMidStream == turn.aborted /\ turn.abortedIn \in {"fetch", "reading", "delay"}

\* C6: when the client disconnects while the final reply of a streaming turn is
\* being token-streamed, no token event follows the disconnect (a chunk is
\* decoded in one step), no done event is ever written, and the stream ends with
\* an error event.
C6_AbortStopsTokens ==
    AbortedMidStream =>
        /\ \A i \in (turn.abortedAt + 1)..Len(events) :
              events[i].event \notin {"token", "result", "done"}
        /\ turn.pc = "ended" =>
              events[Len(events)] = Ev("error", "", "", FALSE, "Client disconnected.")
        /\ turn.response.status # 200

C6_Witness ==
    /\ turn.pc = "ended" /\ turn.abortedIn = "reading" /\ turn.abortedAt > 0
    /\ events[turn.abortedAt].event = "token"
    /\ events[Len(events)].event = "error"

(***************************************************************************)
(* rebalance_schedule and the fixed blocks (Spec).                         *)
(***************************************************************************)
\* Two intervals of valid instants intersect.
Overlaps(start1, end1, start2, end2) ==
    /\ start1 # NaN /\ end1 # NaN /\ start2 # NaN /\ end2 # NaN
    /\ start1 < end2 /\ start2 < end1

OverlapsFixed(start, end, fixedBlocks) ==
    \E m \in 1..Len(fixedBlocks) :
        Overlaps(start, end, DateParse(fixedBlocks[m].start), DateParse(fixedBlocks[m].end))

\* Every block proposed overlaps a fixed block, and there is one.
OnlyOverlapping(blocks, fixedBlocks) ==
    /\ blocks # <<>>
    /\ \A k \in 1..Len(blocks) :
          OverlapsFixed(DateOf(Field(blocks[k], "start")), DateOf(Field(blocks[k], "end")),
                        fixedBlocks)

\* C7: a block proposed by the nested call that overlaps a fixed block is never
\* written to the schedule, and when every proposed block overlaps one the tool
\* result is an error and the schedule is unchanged.
C7_OverlappingBlocksDiscarded ==
    \A k \in 1..Len(turn.trace) :
        (turn.trace[k].name = "rebalance_schedule" /\ ~turn.trace[k].llm.threw) =>
            /\ turn.trace[k].ok =>
                  \A b \in 1..Len(turn.trace[k].after.schedule) :
                      ~OverlapsFixed(DateParse(turn.trace[k].after.schedule[b].start),
                                     DateParse(turn.trace[k].after.schedule[b].end),
                                     turn.trace[k].before.fixedBlocks)
            /\ OnlyOverlapping(BlocksOf(safeParseJSONFromText(turn.trace[k].llm.reply)),
                               turn.trace[k].before.fixedBlocks) =>
                  /\ ~turn.trace[k].ok
                  /\ turn.trace[k].after.schedule = turn.trace[k].before.schedule

(***************************************************************************)
(* A planner reply that stays invalid (Spec).                              *)
(***************************************************************************)
\* C10: when the planner's reply fails validation after the repair call too, the
\* turn ends at PLANNING with the error answer: no tool is executed, the record
\* is not saved and no history entry is appended.
C10_PlanFailureAbortsTurn ==
    turn.planFailed =>
        /\ turn.pc = "ended"
        /\ turn.response = [status |-> 502, error |-> "Assistant returned invalid JSON.",
                            reply |-> ""]
        /\ turn.trace = <<>> /\ turn.toolResults = <<>>
        /\ turn.saves = 0 /\ disk = SavedRecord
        /\ data = turn.loaded
        /\ turn.endpoint = "stream" =>
              /\ events[Len(events)] =
                    Ev("error", "", "", FALSE, "Assistant returned invalid JSON.")
              /\ \A i \in 1..Len(events) : events[i].event \in {"meta", "status", "error"}

C10_Witness ==
    /\ turn.planFailed /\ turn.pc = "ended" /\ turn.endpoint = "stream"
    /\ data.assistantHistory = EarlierTurns(1)


(***************************************************************************)
(* Rejected tool calls (SpecTool): create_task, update_task, delete_task,   *)
(* create_goal, update_goal, delete_goal, add_habit and delete_habit.      *)
(***************************************************************************)
EntityTools ==
    {"create_task", "update_task", "delete_task", "create_goal", "update_goal",
     "delete_goal", "add_habit", "delete_habit"}

SchemaAccepts(name, input) ==
    CASE name = "create_task" -> taskCreateSchema(input)
      [] name = "update_task" -> assistantUpdateTaskSchema(input)
      [] name = "create_goal" -> goalCreateSchema(input)
      [] name = "update_goal" -> goalUpdateSchema(input)
      [] name = "add_habit" -> habitCreateSchema(input)
      [] OTHER -> IdSchema(input)

TargetMissing(name, id, d) ==
    CASE name \in {"update_task", "delete_task"} -> \A i \in 1..Len(d.tasks) : d.tasks[i].id # id
      [] name \in {"update_goal", "delete_goal"} -> \A i \in 1..Len(d.goals) : d.goals[i].id # id
      [] name = "delete_habit" -> \A i \in 1..Len(d.dailyHabits) : d.dailyHabits[i].id # id
      [] OTHER -> FALSE

\* The arguments of the call the trace entry e records.
InputOf(e) == ToolInput(Field(turn.toolCalls[e.idx], "arguments"))

SchemaRejected(e) == e.name \in EntityTools /\ ~SchemaAccepts(e.name, InputOf(e))

TargetNotFound(e) ==
    /\ e.name \in EntityTools /\ SchemaAccepts(e.name, InputOf(e))
    /\ TargetMissing(e.name, InputOf(e).f["id"].s, e.before)

PlannerStateKept(e) ==
    /\ e.after.tasks = e.before.tasks /\ e.after.goals = e.before.goals
    /\ e.after.dailyHabits = e.before.dailyHabits /\ e.after.schedule = e.before.schedule

Min(a, b) == IF a < b THEN a ELSE b

\* The positions of the executed calls, in the order of their execution.
ExecutedOrder == [k \in 1..Len(turn.trace) |-> turn.trace[k].idx]

\* C12 as stated: once the tool loop is over, exactly the first min(6, n) calls
\* of the plan have been executed, in plan order, with one ToolResult each.
C12_ExactlyFirstSixExecuted ==
    ActingOver /\ ~turn.planFailed =>
        /\ ExecutedOrder = [k \in 1..Min(PlanLimit, Len(turn.planned)) |-> k]
        /\ Len(turn.toolResults) = Min(PlanLimit, Len(turn.planned))

\* C12: at most 6 calls are executed per turn, all of them among the first 6 of
\* the plan and in plan order; a call after the sixth is never executed and gets
\* no ToolResult; every call among the first 6 whose trimmed name is not empty is
\* executed whether or not the calls before it failed, and a call whose trimmed
\* name is empty is skipped without a ToolResult.
C12_AtMostSixInOrder ==
    /\ Len(turn.trace) <= PlanLimit /\ Len(turn.toolResults) = Len(turn.trace)
    /\ \A k \in 1..Len(turn.trace) :
          /\ turn.trace[k].idx \in 1..Min(PlanLimit, Len(turn.planned))
          /\ turn.trace[k].name = CallName(turn.planned[turn.trace[k].idx])
          /\ turn.toolResults[k].name = turn.trace[k].name
          /\ k > 1 => turn.trace[k - 1].idx < turn.trace[k].idx
    /\ ActingOver =>
          ExecutedCalls = {i \in 1..Min(PlanLimit, Len(turn.planned)) :
                              CallName(turn.planned[i]) # ""}

\* A plan of seven calls: six ran, one of them failed and a later one succeeded,
\* and the turn completed.
C12_Witness ==
    /\ turn.pc = "ended" /\ turn.response.status = 200
    /\ Len(turn.planned) = 7 /\ Len(turn.trace) = 6 /\ Len(turn.toolResults) = 6
    /\ \E k \in 1..5 : ~turn.trace[k].ok /\ turn.trace[k + 1].ok


(***************************************************************************)
(* The order of the tool loop and its list of results (Spec).              *)
(***************************************************************************)
\* The calls the loop considers: the first min(6, n) of the plan.
Considered == 1..Min(PlanLimit, Len(turn.planned))

\* C13 as stated: once the tool loop is over the list of results holds one
\* result per considered call, the i-th result being the one of the i-th call.
C13_OneResultPerConsideredCall ==
    ActingOver /\ ~turn.planFailed =>
        /\ Len(turn.toolResults) = Cardinality(Considered)
        /\ \A i \in 1..Len(turn.toolResults) :
              turn.toolResults[i].name = CallName(turn.planned[i])

\* The considered calls whose trimmed name is not empty, and how many of them
\* stand at or before position i.
Named == {i \in Considered : CallName(turn.planned[i]) # ""}
NamedBefore(i) == Cardinality({j \in Named : j <= i})

\* C13: the calls run one at a time in plan order, each on the record the call
\* before it left (the first on the loaded record), and the record of the turn is
\* the one the last call left; the list of results holds one result per executed
\* call, in the order of execution, and once the loop is over the k-th result is
\* the one of the k-th considered call whose trimmed name is not empty.
C13_SequentialWithOneResultEach ==
    /\ Len(turn.toolResults) = Len(turn.trace)
    /\ \A k \in 1..Len(turn.trace) :
          /\ turn.trace[k].before = IF k = 1 THEN turn.loaded ELSE turn.trace[k - 1].after
          /\ turn.trace[k].idx \in Named /\ NamedBefore(turn.trace[k].idx) = k
          /\ turn.toolResults[k].name = CallName(turn.planned[turn.trace[k].idx])
          /\ turn.toolResults[k].ok = turn.trace[k].ok
          /\ turn.toolResults[k].error = turn.trace[k].error
    /\ (turn.pc = "acting" /\ Len(turn.trace) > 0) =>
          data = turn.trace[Len(turn.trace)].after
    /\ ActingOver => Len(turn.toolResults) = Cardinality(Named)

\* The second call found the record as the first one left it: the task it was
\* to update had just been deleted.
C13_Witness ==
    /\ ActingOver /\ Len(turn.trace) = 2
    /\ turn.trace[1].name = "delete_task" /\ turn.trace[1].ok
    /\ turn.trace[2].name = "update_task" /\ ~turn.trace[2].ok
    /\ turn.toolResults[2].error = "Task not found"
    /\ IndexOfId(turn.loaded.tasks, "t1") > 0


(***************************************************************************)
(* The second call of the model (Spec).                                    *)
(***************************************************************************)
\* The positions of the log that hold a call of the kinds given.
CallsOf(kinds) == {i \in 1..Len(turn.llmCalls) : turn.llmCalls[i].call \in kinds}

RespondingCalls == CallsOf({"final", "final-repair", "stream"})

\* The turn reached DONE.
TurnDone == turn.pc = "ended" /\ turn.response.status = 200

EventNames == {"meta", "status", "token", "result", "error", "done"}

TerminalEvents == {i \in 1..Len(events) : events[i].event \in {"done", "error"}}

\* C15: the stream of a turn holds at most one terminal event, done or error,
\* and nothing after it; a turn that has ended holds exactly one; done directly
\* follows a result event that carries the reply of the turn and the results of
\* its tools; and every event bears one of the six names.
C15_OneTerminalEvent ==
    /\ \A i \in 1..Len(events) : events[i].event \in EventNames
    /\ Cardinality(TerminalEvents) <= 1
    /\ \A i \in TerminalEvents : i = Len(events) /\ turn.pc = "ended"
    /\ (turn.pc = "ended" /\ turn.endpoint = "stream") => Cardinality(TerminalEvents) = 1
    /\ \A i \in 1..Len(events) :
          events[i].event = "done" =>
             /\ i > 1 /\ events[i - 1].event = "result"
             /\ events[i - 1].text = turn.reply
             /\ events[i - 1].toolResults = turn.toolResults
             /\ Len(turn.toolResults) = Len(turn.trace)
             /\ TurnDone
    /\ \A i \in 1..Len(events) : events[i].event = "result" => i < Len(events)

\* A streaming turn ran a tool that failed and one that succeeded, streamed its
\* reply and ended with result and done.
C15_Witness ==
    /\ turn.endpoint = "stream" /\ TurnDone /\ turn.reply # ""
    /\ \E k \in 1..Len(turn.toolResults) : ~turn.toolResults[k].ok
    /\ \E k \in 1..Len(turn.toolResults) : turn.toolResults[k].ok
    /\ events[Len(events)].event = "done"


(***************************************************************************)
(* The order of the events of a streaming turn (Spec).                     *)
(***************************************************************************)
\* The positions of the status events of the stage given.
StageAt(stage) ==
    {i \in 1..Len(events) : events[i].event = "status" /\ events[i].stage = stage}

\* The positions of the tool_start events, and how many stand before position i.
ToolStartsBefore(i) == Cardinality({j \in StageAt("tool_start") : j < i})

DisconnectedBeforeReply ==
    turn.aborted /\ turn.abortedIn \in {"planning", "acting", "fetch", "reading", "delay"}

\* C17: when the client disconnects during PLANNING, ACTING or RESPONDING, the
\* saved record keeps the history it had when the turn loaded it.
C17_DisconnectLeavesHistory ==
    DisconnectedBeforeReply =>
        /\ disk.assistantHistory = turn.loaded.assistantHistory
        /\ turn.saves = 0


(***************************************************************************)
(* The provider of a turn (Spec).                                          *)
(***************************************************************************)
\* C18: every call of the model in a turn (the planner call, a repair call, the
\* call of rebalance_schedule, the final call) is dispatched to the adapter of
\* the provider the handler resolved when the turn began, which is the one the
\* meta event announces.
C18_OneProviderPerTurn ==
    /\ \A i \in 1..Len(turn.llmCalls) :
          /\ turn.llmCalls[i].adapter = turn.provider
          /\ turn.endpoint = "stream" =>
                events[1].event = "meta" /\ events[1].text = turn.llmCalls[i].adapter
    /\ turn.pc # "idle" => turn.llmCalls # <<>> /\ turn.llmCalls[1].call = "plan"

\* A streaming turn called the model for the plan, from rebalance_schedule and
\* for the final reply, for a user whose preferred provider is not the server's
\* default.
C18_Witness ==
    /\ turn.endpoint = "stream" /\ turn.pc = "ended"
    /\ \A kind \in {"plan", "rebalance", "stream"} : CallsOf({kind}) # {}
    /\ turn.provider # EnvDefault
    /\ turn.loaded.settings.aiProvider = "gemini"


(***************************************************************************)
(* The history entries of a turn (Spec).                                   *)
(***************************************************************************)
\* The entries the turn has appended to the history it loaded (which holds fewer
\* than ASSISTANT_HISTORY_LIMIT - 2 entries, so that none is dropped).
AppendedEntries ==
    SubSeq(data.assistantHistory, Len(turn.loaded.assistantHistory) + 1,
           Len(data.assistantHistory))

\* C19: a turn appends nothing to the history, or its user entry followed by its
\* assistant entry.
C19_HistoryAppendedInPairs ==
    turn.pc # "idle" =>
        \/ AppendedEntries = <<>>
        \/ /\ Len(AppendedEntries) = 2 /\ TurnDone
           /\ AppendedEntries[1].role = "user" /\ AppendedEntries[1].content = turn.message
           /\ AppendedEntries[2].role = "assistant"
           /\ AppendedEntries[2].content = turn.reply


(***************************************************************************)
(* The changed flag of the tool loop (Spec).                               *)
(***************************************************************************)
\* The executed calls that returned and whose tool is not read-only.
MutatingSuccesses ==
    {k \in 1..Len(turn.trace) :
        turn.trace[k].ok /\ turn.trace[k].name \notin {"get_snapshot", "list_tasks",
                                                       "get_calendar_links"}}

\* C20: throughout the tool loop and after it, changed is true exactly when a
\* call of a tool outside get_snapshot, list_tasks and get_calendar_links has
\* returned; and a call of one of these three leaves the record as it found it.
C20_ChangedIffMutatingSuccess ==
    /\ turn.changed <=> MutatingSuccesses # {}
    /\ \A k \in 1..Len(turn.trace) :
          turn.trace[k].name \in {"get_snapshot", "list_tasks", "get_calendar_links"} =>
              turn.trace[k].after = turn.trace[k].before

\* The loop ran a read-only tool that returned and a tool that failed: the
\* record is not marked as changed and the turn saved its history only.
C20_Witness ==
    /\ TurnDone /\ Len(turn.trace) = 2 /\ ~turn.changed
    /\ turn.trace[1].name = "list_tasks" /\ turn.trace[1].ok
    /\ turn.trace[2].name = "add_habit" /\ ~turn.trace[2].ok
    /\ disk.tasks = turn.loaded.tasks /\ disk.dailyHabits = turn.loaded.dailyHabits

(***************************************************************************)
(* Claims about the provider adapters (SpecAdapter, SpecAdapterFair).      *)
(***************************************************************************)
LastSeen == adapterCall.seen[Len(adapterCall.seen)]

\* The transient network errors: a connection reset, a timeout, a DNS failure.
Transient(err) == err \in {ConnectionReset, ConnectTimeout, DnsFailure}

\* The last thing the call saw is a fetch that failed with a transient error.
TransientFetchFailure ==
    /\ adapterCall.seen # <<>> /\ LastSeen.kind = "reject" /\ Transient(LastSeen.err)

AdapterCallEnded == adapterCall.pc \in {"returned", "threw"}

HasRetryLoop == MaxAttempts(adapterCall.adapter, adapterCall.stream) > 1

\* The claim as stated, for every adapter: a call that has thrown a transient
\* network error has used up its three attempts.
C21_TransientErrorRetriedByAll ==
    adapterCall.pc = "threw" /\ TransientFetchFailure => adapterCall.attempt = 3

\* The attempts and the waits of a call: at most three requests; the wait after
\* attempt k lasts k x 1000 ms and k < 3; callOpenAI, callGemini and
\* callGeminiStream answer a transient failure of fetch by that wait and a new
\* attempt until the third attempt, whose error they throw; the other adapters
\* throw the first one without a wait.
RetryPolicy ==
    /\ Len(adapterCall.requests) <= 3 /\ adapterCall.attempt <= 3
    /\ \A i \in 1..Len(adapterCall.waits) :
          /\ adapterCall.waits[i].after = i /\ i < 3
          /\ adapterCall.waits[i].ms = i * 1000
    /\ TransientFetchFailure /\ HasRetryLoop =>
          \/ /\ adapterCall.pc = "delay" /\ adapterCall.attempt < 3
             /\ Len(adapterCall.waits) = adapterCall.attempt
          \/ /\ adapterCall.pc = "fetch" /\ Len(adapterCall.waits) = adapterCall.attempt - 1
          \/ /\ adapterCall.pc = "threw" /\ adapterCall.attempt = 3
             /\ adapterCall.error = LastSeen.err
    /\ TransientFetchFailure /\ ~HasRetryLoop =>
          /\ adapterCall.pc = "threw" /\ adapterCall.error = LastSeen.err
          /\ adapterCall.waits = <<>>

\* C21 (amended): callOpenAI, callGemini and callGeminiStream retry a fetch that
\* fails with a transient network error on attempt k < 3 after a wait of
\* k x 1000 ms, and the other adapters surface it at once; no adapter call makes
\* more than 3 attempts, the error of the last attempt is surfaced, and every
\* adapter call terminates.
C21_RetryPolicyPerAdapter == []RetryPolicy /\ <>AdapterCallEnded

\* callOpenAI has thrown the timeout of its third attempt, 3000 ms of waits
\* after the first request.
C21_Witness ==
    /\ adapterCall.adapter = "openai" /\ ~adapterCall.stream
    /\ adapterCall.pc = "threw" /\ adapterCall.error = ConnectTimeout
    /\ Len(adapterCall.requests) = 3 /\ adapterCall.requests[3].at = 3000
    /\ \A i \in 1..3 : adapterCall.seen[i].kind = "reject"

EmptyReplyErrors == {MissingContent("gemini"), StreamingReplyEmpty}

EmptiesSeen == {i \in 1..Len(adapterCall.seen) : adapterCall.seen[i].kind = "empty"}

\* C22: in callGemini and callGeminiStream a 2xx response without content is
\* followed by the wait and a new attempt while the attempt is not the third,
\* the third empty response makes the call throw "Gemini reply missing content"
\* or "Gemini streaming reply empty", and no call returns after an empty response.
C22_EmptyReplyRetriedThenDistinctError ==
    adapterCall.adapter = "gemini" /\ adapterCall.seen # <<>> /\ LastSeen.kind = "empty" =>
        /\ adapterCall.pc # "returned"
        /\ \/ /\ adapterCall.pc = "delay" /\ adapterCall.attempt < GEMINI_MAX_RETRIES
              /\ Len(adapterCall.waits) = adapterCall.attempt
              /\ adapterCall.waits[adapterCall.attempt].ms = 1000 * adapterCall.attempt
           \/ /\ adapterCall.pc = "fetch" /\ Len(adapterCall.waits) = adapterCall.attempt - 1
           \/ /\ adapterCall.pc = "threw" /\ adapterCall.attempt = GEMINI_MAX_RETRIES
              /\ adapterCall.error \in EmptyReplyErrors
              /\ adapterCall.error = IF adapterCall.stream THEN StreamingReplyEmpty
                                     ELSE MissingContent("gemini")
              /\ adapterCall.reply = ""

\* Three empty responses in a row: the Gemini call has thrown the empty-reply error.
C22_Witness ==
    /\ adapterCall.adapter = "gemini" /\ adapterCall.pc = "threw"
    /\ adapterCall.error \in EmptyReplyErrors
    /\ Cardinality(EmptiesSeen) = 3 /\ Len(adapterCall.requests) = 3

BlocksSeen == {i \in 1..Len(adapterCall.seen) : adapterCall.seen[i].kind = "block"}

\* C23: once a Gemini adapter has seen a block signal (promptFeedback.blockReason)
\* the call has thrown "Gemini blocked the prompt: <reason>": the signal is the
\* last thing the call saw, no wait and no request follows it whatever the
\* attempt, and the call returns no text.
C23_BlockSurfacedAtOnce ==
    adapterCall.adapter = "gemini" /\ BlocksSeen # {} =>
        /\ BlocksSeen = {Len(adapterCall.seen)}
        /\ adapterCall.pc = "threw"
        /\ StartsWith(adapterCall.error.message, "Gemini blocked the prompt: ")
        /\ adapterCall.error \notin EmptyReplyErrors
        /\ adapterCall.reply = ""
        /\ Len(adapterCall.requests) = adapterCall.attempt
        /\ Len(adapterCall.waits) = adapterCall.attempt - 1

\* callGeminiStream, second attempt: a token was written, then the stream carried
\* a block signal and the call threw.
C23_Witness ==
    /\ adapterCall.adapter = "gemini" /\ adapterCall.stream
    /\ adapterCall.attempt = 2 /\ adapterCall.tokens = <<"Hi">>
    /\ adapterCall.pc = "threw" /\ adapterCall.error = Blocked("SAFETY")

\* The message of a non-2xx answer: error.message of its body, else the body.
RejectionMessage(seen) == IF seen.err.message # "" THEN seen.err.message ELSE seen.text

\* The message of the error thrown for a non-2xx answer.
SurfacedMessage(seen) ==
    (IF seen.err.message # "" THEN seen.err.message
     ELSE UpstreamError(adapterCall.adapter, adapterCall.stream))
        \o " (status " \o ToString(seen.status) \o ")"

\* The last answer of a complete call rejects a strict-JSON request with a
\* message that mentions the JSON response format.
StrictJsonRejected ==
    /\ ~adapterCall.stream /\ adapterCall.seen # <<>>
    /\ adapterCall.requests[Len(adapterCall.seen)].strict
    /\ LastSeen.kind = "http" /\ JsonModeRejected(RejectionMessage(LastSeen))

NonStrictRetrySent ==
    /\ adapterCall.pc = "fetch" /\ Len(adapterCall.requests) = Len(adapterCall.seen) + 1
    /\ ~adapterCall.requests[Len(adapterCall.requests)].strict

\* The claim as stated, for every adapter: the rejection of a strict-JSON request
\* is answered by a request without strict JSON.
C24_EveryAdapterRetriesWithoutJsonMode == StrictJsonRejected => NonStrictRetrySent

\* C24 (amended): callDeepSeek answers the rejection of its strict-JSON request
\* by one request without response_format, sent at once, and the outcome of that
\* request is the outcome of the call; callOpenAI and callGemini never send a
\* request without strict JSON once it was asked for, and throw the rejection
\* of a 4xx status.
C24_OnlyDeepSeekRetriesWithoutJsonMode ==
    /\ adapterCall.adapter = "deepseek" /\ StrictJsonRejected =>
          NonStrictRetrySent /\ Len(adapterCall.requests) = 2 /\ adapterCall.waits = <<>>
    /\ adapterCall.adapter = "deepseek" /\ ~adapterCall.stream =>
          /\ Len(adapterCall.requests) <= 2
          /\ Len(adapterCall.seen) = 2 =>
                /\ adapterCall.requests[1].strict /\ ~adapterCall.requests[2].strict
                /\ adapterCall.pc = IF adapterCall.seen[2].kind = "text" THEN "returned"
                                    ELSE "threw"
    /\ adapterCall.adapter # "deepseek" =>
          /\ \A i \in 1..Len(adapterCall.requests) :
                adapterCall.requests[i].strict = adapterCall.expectJSON
          /\ StrictJsonRejected /\ LastSeen.status < 500 =>
                /\ adapterCall.pc = "threw"
                /\ adapterCall.error.message = SurfacedMessage(LastSeen)

\* callDeepSeek has returned the reply to its second request, sent without
\* response_format after the first was rejected.
C24_Witness ==
    /\ adapterCall.adapter = "deepseek" /\ adapterCall.expectJSON
    /\ adapterCall.pc = "returned" /\ adapterCall.reply = "Hi there"
    /\ Len(adapterCall.requests) = 2 /\ ~adapterCall.requests[2].strict
    /\ adapterCall.seen[1].kind = "http"
    /\ JsonModeRejected(RejectionMessage(adapterCall.seen[1]))

\* The last answer is a non-2xx response other than the rejection of strict JSON
\* that callDeepSeek retries.
OtherHttpError ==
    /\ adapterCall.seen # <<>> /\ LastSeen.kind = "http"
    /\ ~(adapterCall.adapter = "deepseek" /\ StrictJsonRejected /\ Len(adapterCall.seen) = 1)

\* The error of the last answer was thrown, and nothing was sent after it.
SurfacedAtOnce ==
    /\ adapterCall.pc = "threw" /\ adapterCall.error.message = SurfacedMessage(LastSeen)
    /\ Len(adapterCall.waits) = adapterCall.attempt - 1

\* The claim as stated, for every adapter: the error of such a response is thrown
\* and no request follows it.
C25_EveryHttpErrorPropagatesAtOnce == OtherHttpError => SurfacedAtOnce

\* The non-2xx answers an adapter retries: the Gemini adapters the 5xx statuses,
\* callOpenAI the errors whose message holds ETIMEDOUT, ENOTFOUND or socket.
RetriedHttpError ==
    \/ adapterCall.adapter = "gemini" /\ LastSeen.status \in 500..599
    \/ /\ adapterCall.adapter = "openai" /\ ~adapterCall.stream
       /\ \E word \in {"ETIMEDOUT", "ENOTFOUND", "socket"} :
             Includes(SurfacedMessage(LastSeen), word)

\* C25 (amended): a non-2xx response other than the strict-JSON rejection that
\* callDeepSeek retries is thrown at once and no request follows it, except that
\* callGemini and callGeminiStream retry a 5xx status, and callOpenAI an error
\* message holding ETIMEDOUT, ENOTFOUND or socket, after attempt x 1000 ms while
\* the attempt is not the third.
C25_HttpErrorPropagatesUnlessRetryable ==
    OtherHttpError =>
        \/ SurfacedAtOnce /\ (RetriedHttpError => adapterCall.attempt = 3)
        \/ /\ RetriedHttpError /\ adapterCall.pc = "delay" /\ adapterCall.attempt < 3
           /\ Len(adapterCall.waits) = adapterCall.attempt
           /\ adapterCall.waits[adapterCall.attempt].ms = 1000 * adapterCall.attempt
        \/ /\ RetriedHttpError /\ adapterCall.pc = "fetch" /\ adapterCall.attempt > 1
           /\ Len(adapterCall.waits) = adapterCall.attempt - 1

\* callGemini was answered 500 and, after the wait, 401: the second error was
\* thrown at once.
C25_Witness ==
    /\ adapterCall.adapter = "gemini" /\ ~adapterCall.stream
    /\ Len(adapterCall.seen) = 2 /\ adapterCall.seen[1].status = 500
    /\ LastSeen.status = 401 /\ adapterCall.pc = "threw"
    /\ adapterCall.error.message = "Invalid API key (status 401)"
    /\ Len(adapterCall.requests) = 2

(***************************************************************************)
(* Claims about the agent turn (Spec), continued.                          *)
(***************************************************************************)
\* The LLM calls of the turn issued after the client's disconnect that send a
\* request: the planning, repair and rebalance calls take no signal; the
\* streamed call's fetch rejects on the aborted signal.
CallsAfterDisconnect ==
    {i \in (turn.abortedCalls + 1)..Len(turn.llmCalls) : turn.llmCalls[i].call # "stream"}

\* C26: after the client's disconnect a streaming turn issues no further LLM call.
C26_NoLlmCallAfterDisconnect == turn.aborted => CallsAfterDisconnect = {}

(***************************************************************************)
(* Claims about the wire decoders (SpecWire).                              *)
(***************************************************************************)
\* The decoding of a text that arrives in one buffer: up to the end of the
\* buffer, and to the end of the body.
OneBufferOpen(decoder, text) == WireFeed(WireStart(decoder, text, <<text>>), text)
OneBuffer(decoder, text) == WireFinish(OneBufferOpen(decoder, text))

\* The newlines of a text, and those that end a blank line.
Newlines(text) == {i \in 1..Len(text) : At(text, i) = "\n"}
BlankLineEnds(text) ==
    {i \in Newlines(text) :
        \/ i = 1 \/ At(text, i - 1) = "\n"
        \/ At(text, i - 1) = "\r" /\ (i = 2 \/ At(text, i - 2) = "\n")}

\* C27: however the stream is cut into read buffers, the decoder delivers what it
\* delivers when the stream arrives in one buffer, at the end of the body and
\* after every read of the part consumed so far; before the end of the body
\* readSseEvents has delivered no more events than blank lines were read, and
\* readJsonLines no more objects than newlines.
C27_DecodersIgnoreChunkBoundaries ==
    /\ wire.pc = "ended" => wire.delivered = OneBuffer(wire.decoder, wire.bytes).delivered
    /\ wire.pc = "reading" =>
          /\ wire.delivered = OneBufferOpen(wire.decoder, wire.consumed).delivered
          /\ Len(wire.delivered) <=
                Cardinality(IF wire.decoder = "readSseEvents"
                            THEN BlankLineEnds(wire.consumed)
                            ELSE Newlines(wire.consumed))

\* A stream cut between "\r" and "\n" and inside a data: line, decoded to its end.
C27_Witness ==
    /\ wire.pc = "ended" /\ wire.decoder = "readSseEvents"
    /\ wire.chunks = <<"event: x\r\ndata: a\r", "\n\r\nda", "ta: [DONE]\r\n\r\ndata: c\r\n\r\n">>
    /\ wire.delivered = <<SseFrame("x", "a"), SseFrame("message", "[DONE]")>>

Sentinel == "[DONE]"

\* The part of the stream before the sentinel.
BeforeSentinel(bytes) == Slice(bytes, 1, IndexOf(bytes, Sentinel) - 1)

IsSentinelFrame(frame) == Trim(frame.data) = Sentinel

\* The frames delivered other than the sentinel's own.
PayloadFrames(frames) == SelectSeq(frames, LAMBDA frame : ~IsSentinelFrame(frame))

IsPrefixOf(s, t) == Len(s) <= Len(t) /\ SubSeq(t, 1, Len(s)) = s

\* Every frame delivered stands before the sentinel in the stream, and the
\* sentinel's frame is the last one delivered.
NothingAfterSentinel ==
    IndexOf(wire.bytes, Sentinel) > 0 =>
        /\ IsPrefixOf(PayloadFrames(wire.delivered),
                      OneBufferOpen(wire.decoder, BeforeSentinel(wire.bytes)).delivered)
        /\ \A i \in 1..Len(wire.delivered) :
              IsSentinelFrame(wire.delivered[i]) => i = Len(wire.delivered) /\ wire.stop

\* Once the decoding is stopped the next step ends it, with nothing delivered.
StoppedThenEnded ==
    wire.stop /\ wire.pc = "reading" => wire'.pc = "ended" /\ wire'.delivered = wire.delivered

\* C28: once the [DONE] sentinel has been read the decoding ends without an error,
\* and no frame that follows the sentinel in the stream is delivered, be it in the
\* same buffer, in a later buffer or in the unterminated tail.
C28_SentinelEndsDecoding == []NothingAfterSentinel /\ [][StoppedThenEnded]_vars

\* readJsonLines got the sentinel and an object after it in one buffer: it ended
\* with the object before the sentinel as the only one delivered.
C28_Witness ==
    /\ wire.pc = "ended" /\ wire.decoder = "readJsonLines" /\ wire.stop
    /\ wire.chunks = <<wire.bytes>>
    /\ IndexOf(wire.bytes, "{\"c\":3}") > IndexOf(wire.bytes, Sentinel)
    /\ wire.delivered = <<JsonFrame(safeParseJSON("{\"a\":1}"))>>

(***************************************************************************)
(* Claims about rebalance_schedule (Spec).                                 *)
(***************************************************************************)
Rebalances == {k \in 1..Len(turn.trace) : turn.trace[k].name = "rebalance_schedule"}

\* The blocks each reply of the nested call proposes (lines 2725-2726).
ProposedBy == [reply \in RebalanceReplies |-> BlocksOf(safeParseJSONFromText(reply))]

Proposed(k) ==
    IF turn.trace[k].llm.threw THEN <<>> ELSE ProposedBy[turn.trace[k].llm.reply]

\* The proposed blocks that name an unfinished task of the record and end after
\* they start.
ValidProposals(k) == {i \in 1..Len(Proposed(k)) : BlockKept(Proposed(k)[i], turn.trace[k].before)}

\* C29: every block rebalance_schedule writes names an unfinished task of the
\* record and ends strictly after it starts; the blocks written are the valid
\* ones among the proposed, and when none is valid the call is an error and the
\* schedule and lastRebalancedAt are as before.
C29_OnlyValidBlocksWritten ==
    \A k \in Rebalances :
        /\ turn.trace[k].ok =>
              /\ \A b \in 1..Len(turn.trace[k].after.schedule) :
                    /\ turn.trace[k].after.schedule[b].taskId
                          \in UnfinishedIds(turn.trace[k].before)
                    /\ DateParse(turn.trace[k].after.schedule[b].end)
                          > DateParse(turn.trace[k].after.schedule[b].start)
              /\ Len(turn.trace[k].after.schedule) = Cardinality(ValidProposals(k))
              /\ ValidProposals(k) # {}
        /\ ~turn.trace[k].ok =>
              /\ turn.trace[k].after.schedule = turn.trace[k].before.schedule
              /\ turn.trace[k].after.lastRebalancedAt = turn.trace[k].before.lastRebalancedAt
        /\ ~turn.trace[k].llm.threw /\ Proposed(k) # <<>> /\ ValidProposals(k) = {} =>
              ~turn.trace[k].ok

\* A rebalance that wrote fewer blocks than were proposed.
C29_Witness ==
    \E k \in Rebalances :
        /\ turn.trace[k].ok
        /\ Len(turn.trace[k].after.schedule) < Len(Proposed(k))
        /\ turn.trace[k].after.schedule # turn.trace[k].before.schedule

\* parsed.data.maxHoursPerDay of a call (line 2479: 10 when absent).
MaxHoursPerDay(k) ==
    IF Has(ToolInput(Field(turn.toolCalls[turn.trace[k].idx], "arguments")), "maxHoursPerDay")
    THEN IntegerValue(Field(turn.toolCalls[turn.trace[k].idx], "arguments")
                        .f["maxHoursPerDay"].s)
    ELSE 10

DayOf(block) == (DateParse(block.start) - JanuaryFirst) \div SecondsPerDay

Seconds(block) == DateParse(block.end) - DateParse(block.start)

\* The seconds of the blocks of a day.
RECURSIVE SecondsOn(_, _)
SecondsOn(blocks, day) ==
    IF blocks = <<>> THEN 0
    ELSE (IF DayOf(Head(blocks)) = day THEN Seconds(Head(blocks)) ELSE 0)
         + SecondsOn(Tail(blocks), day)

\* C30: after a successful rebalance_schedule the blocks written for any day total
\* at most maxHoursPerDay hours, and no two written blocks overlap.
C30_DailyCapAndNoOverlap ==
    \A k \in Rebalances :
        turn.trace[k].ok =>
            /\ \A b \in 1..Len(turn.trace[k].after.schedule) :
                  SecondsOn(turn.trace[k].after.schedule,
                            DayOf(turn.trace[k].after.schedule[b]))
                      <= MaxHoursPerDay(k) * 3600
            /\ \A b, c \in 1..Len(turn.trace[k].after.schedule) :
                  b # c =>
                     ~Overlaps(DateParse(turn.trace[k].after.schedule[b].start),
                               DateParse(turn.trace[k].after.schedule[b].end),
                               DateParse(turn.trace[k].after.schedule[c].start),
                               DateParse(turn.trace[k].after.schedule[c].end))

(***************************************************************************)
(* Claims about cumulative streams (SpecAdapter).                          *)
(***************************************************************************)
\* The stream adapters that read a text-so-far field: callGeminiStream (the
\* candidate's text) and callOpenAIStream on the Responses API (the output text).
ReadsCumulative(c) == c.stream /\ (c.adapter = "gemini" \/ c.responses)

CumulativeKind(c) == IF c.adapter = "gemini" THEN "text" ELSE "output"

\* The frames read so far, without the sentinel that ended the reading.
ChunksRead(c) ==
    IF c.frames # <<>> /\ c.frames[Len(c.frames)].kind = "done"
    THEN SubSeq(c.frames, 1, Len(c.frames) - 1)
    ELSE c.frames

\* Every chunk read carries a text that extends the text of the chunk before.
Cumulative(c) ==
    /\ ChunksRead(c) # <<>>
    /\ \A i \in 1..Len(ChunksRead(c)) :
          /\ ChunksRead(c)[i].kind = CumulativeKind(c)
          /\ ChunksRead(c)[i].text # ""
          /\ i > 1 => StartsWith(ChunksRead(c)[i].text, ChunksRead(c)[i - 1].text)

RECURSIVE Concat(_)
Concat(texts) == IF texts = <<>> THEN "" ELSE Head(texts) \o Concat(Tail(texts))

\* C31: while a stream adapter reads chunks that each carry the whole text so far,
\* the tokens it has emitted concatenate to the last text read, no token is
\* empty, and the text it returns is that last text.
C31_CumulativeChunksEmitSuffixes ==
    (/\ ReadsCumulative(adapterCall)
     /\ adapterCall.pc \in {"reading", "closing", "returned"}
     /\ Cumulative(adapterCall))
        => /\ Concat(adapterCall.tokens)
                = ChunksRead(adapterCall)[Len(ChunksRead(adapterCall))].text
           /\ adapterCall.full = Concat(adapterCall.tokens)
           /\ \A i \in 1..Len(adapterCall.tokens) : adapterCall.tokens[i] # ""
           /\ adapterCall.pc = "returned" => adapterCall.reply = adapterCall.full

C31_Witness ==
    /\ ReadsCumulative(adapterCall) /\ adapterCall.pc = "returned"
    /\ Cumulative(adapterCall) /\ Len(ChunksRead(adapterCall)) = 2
    /\ adapterCall.tokens = <<"Hi", " there">>
    /\ adapterCall.reply = "Hi there"

(***************************************************************************)
(* Claims about the callers of the repair pipeline (Spec).                 *)
(***************************************************************************)
\* C32: a turn in which a call of the repair pipeline ended {ok:false}, the planner
\* call or the final-reply call after the tools, ends with an error response and
\* returns no reply.
C32_InvalidOutcomeFailsTheTurn ==
    (turn.pc = "ended" /\ (turn.planFailed \/ turn.finalFailed))
        => turn.response.status # 200 /\ turn.response.reply = ""

(***************************************************************************)
(* Claims about the stages of the extraction (SpecJson).                   *)
(***************************************************************************)
\* The value each stage of safeParseJSONFromText parses on its own: the trimmed
\* text (line 236), the text without fence markers (239), the balanced substring
\* (242-243).
StageValue(raw, stage) ==
    CASE stage = 1 -> safeParseJSON(Trim(raw))
      [] stage = 2 -> safeParseJSON(Trim(StripFences(Trim(raw))))
      [] OTHER -> FromExtracted(OrText(extractFirstJsonObject(Trim(raw)),
                                       extractFirstJsonObject(Trim(StripFences(Trim(raw))))))

StageValidates(schema, raw, stage) == SchemaParse(schema, StageValue(raw, stage)).success

\* C33: the stages direct parse, fence-stripped parse and balanced-substring parse
\* are each validated against the schema, and the first stage whose value
\* validates gives the result without a repair call, whatever an earlier stage
\* parsed.
C33_FirstValidatingStageWins ==
    \A stage \in 1..3 :
        (/\ jr.pc \in {"repair", "done"}
         /\ StageValidates(jr.schema, jr.raw, stage)
         /\ \A earlier \in 1..(stage - 1) : ~StageValidates(jr.schema, jr.raw, earlier))
            => /\ jr.pc = "done" /\ jr.calls = 1
               /\ jr.result.ok /\ ~jr.result.repaired
               /\ jr.result.data = SchemaParse(jr.schema, StageValue(jr.raw, stage)).data

(***************************************************************************)
(* Claims about the tokens of a streaming turn (Spec).                     *)
(***************************************************************************)
\* The payloads of the token events written so far, in order.
TokenPayloads == [i \in 1..Len(SelectSeq(events, LAMBDA e : e.event = "token")) |->
                    SelectSeq(events, LAMBDA e : e.event = "token")[i].text]

ReachedDone == turn.endpoint = "stream" /\ \E i \in 1..Len(events) : events[i].event = "done"

\* C34: in a streaming turn that reached done, the reply of the result event is
\* the concatenation, in order, of the payloads of the turn's token events.
C34_ResultIsConcatenationOfTokens ==
    ReachedDone =>
        \A i \in 1..Len(events) :
            events[i].event = "result" => events[i].text = Joined(TokenPayloads)

\* Tools ran and the final reply was streamed in more than one token.
C34_Witness ==
    /\ ReachedDone /\ turn.toolResults # <<>>
    /\ Len(TokenPayloads) > 1
    /\ \E i \in 1..Len(events) : events[i].event = "result" /\ events[i].text # ""

(***************************************************************************)
(* Claims about the writes of a turn to the user's file (Spec).            *)
(***************************************************************************)
TurnFailed == turn.pc = "ended" /\ turn.response.error # ""

\* C35: a turn writes the user's record at most once, and only when it ends with
\* its reply; until then, and when the turn ends in an error, the file holds what
\* it held when the turn began, whatever the tools changed in memory.
C35_SavedOnceAfterTheReply ==
    /\ turn.saves <= 1
    /\ turn.saves = 1 => turn.pc = "ended" /\ turn.response.status = 200
                         /\ turn.response.reply = turn.reply /\ disk = data
    /\ turn.saves = 0 => disk = SavedRecord
    /\ TurnFailed => turn.saves = 0 /\ disk = SavedRecord

\* A turn failed after one of its tools had changed the record in memory.
C35_Witness ==
    /\ TurnFailed /\ turn.changed /\ data # disk
    /\ \E k \in 1..Len(turn.trace) :
          turn.trace[k].ok /\ turn.trace[k].after # turn.trace[k].before

(***************************************************************************)
(* Tool calls made one after the other on a record that starts empty: each *)
(* call is executeAssistantTool on the record the call before has left.    *)
(* The ids a call names are ids of the record, or an id it does not hold.  *)
(***************************************************************************)
MaxToolCalls == 4

Obj1(k, v) == JObject(k :> JString(v))
Obj2(k1, v1, k2, v2) == JObject((k1 :> JString(v1)) @@ (k2 :> JString(v2)))

IdsOf(seq) == {seq[i].id : i \in 1..Len(seq)}

\* The calls a planner may make on record d.
PlannerCalls(d) ==
    { [name |-> "create_goal", args |-> Obj2("name", "Read", "level", "daily")],
      [name |-> "create_goal", args |-> Obj2("name", "Run", "level", "weekly")],
      [name |-> "create_task", args |-> Obj1("task_name", "Essay")],
      [name |-> "rebalance_schedule", args |-> JObject(NoMembers)],
      [name |-> "delete_goal", args |-> Obj1("id", "goal_0")],
      [name |-> "delete_task", args |-> Obj1("id", "task_0")] }
    \cup { [name |-> "update_goal", args |-> Obj2("id", id, "level", level)] :
             id \in IdsOf(d.goals), level \in {"daily", "Weekly"} }
    \cup { [name |-> "update_goal", args |-> Obj2("id", id, "name", "Read more")] :
             id \in IdsOf(d.goals) }
    \cup { [name |-> "delete_goal", args |-> Obj1("id", id)] : id \in IdsOf(d.goals) }
    \cup { [name |-> "update_task",
            args |-> JObject(("id" :> JString(id)) @@ ("completed" :> JBoolean("true")))] :
             id \in IdsOf(d.tasks) }
    \cup { [name |-> "delete_task", args |-> Obj1("id", id)] : id \in IdsOf(d.tasks) }

\* The reply of the nested model call of rebalance_schedule: one block of an hour
\* for every task of the record, finished or not, and one for a task it does not
\* hold.
RECURSIVE BlockTexts(_, _)
BlockTexts(tasks, i) ==
    IF i > Len(tasks) THEN ""
    ELSE "{\"taskId\":\"" \o tasks[i].id \o "\",\"start\":\"2026-01-05T1" \o ToString(i)
         \o ":00:00Z\",\"end\":\"2026-01-05T1" \o ToString(i) \o ":30:00Z\"},"
         \o BlockTexts(tasks, i + 1)

PlannerReply(d) ==
    "{\"blocks\":[" \o BlockTexts(d.tasks, 1)
    \o "{\"taskId\":\"task_0\",\"start\":\"2026-01-05T09:00:00Z\",\"end\":\"2026-01-05T09:30:00Z\"}]}"

PlannerOutcomes(name, d) ==
    IF name = "rebalance_schedule"
    THEN {[threw |-> FALSE, reply |-> PlannerReply(d)], [threw |-> TRUE, reply |-> ""]}
    ELSE {NoLlm}

PlannerInit ==
    /\ data = EmptyData /\ now = 1 /\ histLog = <<>> /\ histCalls = 0
    /\ planner = PlannerIdleValue
    /\ overlap = OverlapIdleValue /\ queue = QueueIdleValue
    /\ ExtractIdle /\ JsonIdle /\ ProvIdle /\ AgentIdle /\ AdapterIdle

PlannerStep(name, outcome) ==
    /\ data' = outcome.data
    /\ planner' = [calls |-> planner.calls + 1, name |-> name, ok |-> outcome.ok,
                   before |-> data]

\* Lines 2755-2972: one call of executeAssistantTool on the record.
PlannerCall ==
    /\ planner.calls < MaxToolCalls
    /\ \E call \in PlannerCalls(data) :
          \E llm \in PlannerOutcomes(call.name, data) :
             PlannerStep(call.name, executeAssistantTool(call.name, call.args, data, now, llm))
    /\ now' = now + 1
    /\ UNCHANGED <<extractVars, jsonVars, histLog, histCalls, provVars, agentVars,
                   adapterVars, overlap, queue>>

PlannerNext == PlannerCall

SpecPlanner == PlannerInit /\ [][PlannerNext]_vars

(***************************************************************************)
(* Claims about the links between goals, tasks and blocks (SpecPlanner).   *)
(***************************************************************************)
LinkedTasks(d, goalId) == {i \in 1..Len(d.tasks) : IsGoalTask(d.tasks[i], goalId)}

\* C37: every task flagged fromDailyGoal names a goal of the record whose level
\* is daily, and no goal has more than one such task.
C37_DailyGoalTasksFollowGoals ==
    /\ \A i \in 1..Len(data.tasks) :
          data.tasks[i].fromDailyGoal =>
             \E j \in 1..Len(data.goals) :
                data.goals[j].id = data.tasks[i].goalId /\ data.goals[j].level = "daily"
    /\ \A j \in 1..Len(data.goals) : Cardinality(LinkedTasks(data, data.goals[j].id)) <= 1

\* update_goal has moved a daily goal to another level and its task is gone,
\* while another daily goal keeps its own.
C37_Witness ==
    /\ planner.name = "update_goal" /\ planner.ok
    /\ \E j \in 1..Len(data.goals) :
          /\ data.goals[j].level # "daily"
          /\ LinkedTasks(planner.before, data.goals[j].id) # {}
          /\ LinkedTasks(data, data.goals[j].id) = {}
    /\ \E j \in 1..Len(data.goals) : Cardinality(LinkedTasks(data, data.goals[j].id)) = 1

\* C38: every block of the schedule names a task of the record.
C38_BlocksNameExistingTasks ==
    \A b \in 1..Len(data.schedule) : data.schedule[b].taskId \in IdsOf(data.tasks)

\* A call has removed a task that had a block, and the block with it, while the
\* block of another task stays.
C38_Witness ==
    /\ planner.name \in {"delete_task", "update_goal", "delete_goal"} /\ planner.ok
    /\ \E b \in 1..Len(planner.before.schedule) :
          planner.before.schedule[b].taskId \notin IdsOf(data.tasks)
    /\ data.schedule # <<>>
    /\ Len(data.schedule) < Len(planner.before.schedule)

(***************************************************************************)
(* Two agent turns of one user.  Each handler reads the user's file into   *)
(* its own record (line 3068 or 3164), awaits the planner, runs the tools  *)
(* on its record, awaits the final reply when tools ran, appends its two   *)
(* history entries and writes its record to the file (3135-3141,           *)
(* 3228-3235, 3257-3263).  The event loop runs the other handler while one *)
(* awaits.                                                                 *)
(***************************************************************************)
OverlapMessages == <<"Add my essay", "Add a stretching habit">>
OverlapReplies == <<"Essay added.", "Habit added.">>

OverlapPlans ==
    { [name |-> "", args |-> JObject(NoMembers)],
      [name |-> "create_task", args |-> Obj1("task_name", "Essay")],
      [name |-> "add_habit", args |-> Obj2("name", "Stretch", "time", "07:00")] }

OverlapTurn(r) ==
    [pc |-> "idle", message |-> OverlapMessages[r], reply |-> OverlapReplies[r],
     data |-> EmptyData, changed |-> FALSE, loadedAfter |-> 0, savedAt |-> 0]

OverlapInit ==
    /\ \E record \in {EmptyData, SavedRecord} :
          overlap = [file |-> record, clock |-> 1, saves |-> 0,
                     turns |-> <<OverlapTurn(1), OverlapTurn(2)>>]
    /\ planner = PlannerIdleValue /\ queue = QueueIdleValue
    /\ ExtractIdle /\ JsonIdle /\ HistIdle /\ ProvIdle /\ AgentIdle /\ AdapterIdle

overlapFrame ==
    <<extractVars, jsonVars, histVars, provVars, agentVars, adapterVars, planner, queue>>

\* Lines 3068-3071 and 3164-3171: the handler reads the file.
OverlapLoad ==
    /\ \E r \in 1..2 :
          /\ overlap.turns[r].pc = "idle"
          /\ overlap' = [overlap EXCEPT
                            !.turns[r].pc = "planning",
                            !.turns[r].data = ensureAxisUserDataShape(overlap.file),
                            !.turns[r].loadedAfter = overlap.saves]
    /\ UNCHANGED overlapFrame

\* Lines 3135-3141: the two entries are appended and, as the history has
\* changed or a tool has changed the record, the record is written to the file.
Saved(o, r, changed, h) ==
    [o EXCEPT !.turns[r].pc = "done",
              !.turns[r].data.assistantHistory = h.history,
              !.turns[r].savedAt = IF changed \/ h.changed THEN o.saves + 1 ELSE 0,
              !.file = IF changed \/ h.changed
                       THEN [o.turns[r].data EXCEPT !.assistantHistory = h.history]
                       ELSE @,
              !.saves = IF changed \/ h.changed THEN @ + 1 ELSE @,
              !.clock = @ + 1]

OverlapFinish(o, r, changed) ==
    Saved(o, r, changed,
          appendAssistantHistory(o.turns[r].data.assistantHistory,
                                 <<UserEntry(o.turns[r].message),
                                   AssistantEntry(o.turns[r].reply)>>, o.clock))

OverlapRan(o, r, name, outcome) ==
    [o EXCEPT !.turns[r].pc = "final", !.turns[r].data = outcome.data,
              !.turns[r].changed = outcome.ok /\ name \notin READ_ONLY_TOOLS,
              !.clock = @ + 1]

\* The planner's reply arrives (3077-3116, 3180-3240): without tool calls the
\* turn completes at once, else the tools run and the final call is awaited.
OverlapPlan ==
    /\ \E r \in 1..2, call \in OverlapPlans :
          /\ overlap.turns[r].pc = "planning"
          /\ overlap' =
                IF call.name = "" THEN OverlapFinish(overlap, r, FALSE)
                ELSE OverlapRan(overlap, r, call.name,
                                executeAssistantTool(call.name, call.args,
                                                     overlap.turns[r].data, overlap.clock,
                                                     NoLlm))
    /\ UNCHANGED overlapFrame

\* The final reply arrives (3119-3141, 3245-3263).
OverlapFinal ==
    /\ \E r \in 1..2 :
          /\ overlap.turns[r].pc = "final"
          /\ overlap' = OverlapFinish(overlap, r, overlap.turns[r].changed)
    /\ UNCHANGED overlapFrame

OverlapNext == OverlapLoad \/ OverlapPlan \/ OverlapFinal

SpecOverlap == OverlapInit /\ [][OverlapNext]_vars

(***************************************************************************)
(* Claims about overlapping turns (SpecOverlap).                           *)
(***************************************************************************)
BothDone == \A r \in 1..2 : overlap.turns[r].pc = "done"

\* Both turns read the file before either wrote it.
Overlapped == \A r \in 1..2 : overlap.turns[r].loadedAfter = 0

HoldsEntry(history, role, content) ==
    \E i \in 1..Len(history) : history[i].role = role /\ history[i].content = content

\* C36: when two turns of one user overlap and both have completed, the file
\* holds the two history entries of each turn and every task and habit that the
\* tools of each turn have added.
C36_NoUpdateLost ==
    (BothDone /\ Overlapped) =>
        \A r \in 1..2 :
            /\ HoldsEntry(overlap.file.assistantHistory, "user", overlap.turns[r].message)
            /\ HoldsEntry(overlap.file.assistantHistory, "assistant", overlap.turns[r].reply)
            /\ IdsOf(overlap.turns[r].data.tasks) \subseteq IdsOf(overlap.file.tasks)
            /\ IdsOf(overlap.turns[r].data.dailyHabits) \subseteq IdsOf(overlap.file.dailyHabits)

(***************************************************************************)
(* The OfflineQueue of the client (src/js/modules/offline-queue.js).  An   *)
(* item is its id, a number that grows with every enqueue; retries[id] is  *)
(* the retries field of the item's object, which the queue and the pass    *)
(* that sends it share.  sent[id] counts the requests made for the item,   *)
(* succeeded holds the items whose request was answered ok, lastSent the   *)
(* item the running pass sent last.                                        *)
(***************************************************************************)
MAX_QUEUE_SIZE == 100
QuotaKeep == 50
RetryLimit == 3

MaxEnqueues == 2
MaxFetches == 6
MaxRemoves == 1

\* Lines 50-65, saveQueue: when setItem throws a QuotaExceededError the queue is
\* cut to its last 50 items; any other outcome leaves the queue as it is.
saveQueue(q, quota) ==
    IF quota THEN [q EXCEPT !.items = LastN(@, QuotaKeep)] ELSE q

\* An enqueue that cuts the queue to MAX_QUEUE_SIZE items before it pushes.
MadeRoomLate(items) == LastN(items, MAX_QUEUE_SIZE)

\* Lines 69-72: this.queue.slice(-MAX_QUEUE_SIZE + 1) when the queue is full.
MadeRoom(items) ==
    IF Len(items) >= MAX_QUEUE_SIZE THEN LastN(items, MAX_QUEUE_SIZE - 1) ELSE items

\* Lines 68-89, enqueue.
Enqueued(q, quota) ==
    saveQueue([q EXCEPT !.items = Append(MadeRoom(@), q.nextId),
                        !.retries = Append(@, 0), !.sent = Append(@, 0),
                        !.nextId = @ + 1, !.enqueued = @ + 1],
              quota)

\* A sync that does not look at the syncing flag.
MayStartAnyway(q) == q.isOnline /\ q.items # <<>>

\* Line 93: sync returns at once while a pass runs, offline, or on an empty queue.
MayStart(q) == ~q.syncing /\ q.isOnline /\ q.items # <<>>

\* Lines 97-106: the pass takes a copy of the queue and sends its first request.
Started(q) ==
    [q EXCEPT !.syncing = TRUE, !.active = @ + 1, !.pass = q.items, !.passes = @ + 1,
              !.lastSent = 0]

Without(items, id) == SelectSeq(items, LAMBDA x : x # id)

\* A pass that never gives an item up.
GivesUpNever(retries) == FALSE

\* Lines 119 and 126: if (item.retries >= 3).
GivesUp(retries) == retries >= RetryLimit

\* Lines 106-130: the response to the request of an item; ok is response.ok,
\* false also when fetch rejects.
Answered(q, id, ok) ==
    [q EXCEPT !.items = IF ok \/ GivesUp(q.retries[id] + 1) THEN Without(@, id) ELSE @,
              !.retries[id] = IF ok THEN @ ELSE @ + 1,
              !.pass = Tail(@),
              !.sent[id] = @ + 1,
              !.succeeded = IF ok THEN @ \cup {id} ELSE @,
              !.lastSent = id,
              !.fetches = @ + 1]

\* Lines 133-134: after the last item the queue is saved and the flag reset.
PassEnded(q, quota) ==
    IF q.pass # <<>> THEN q
    ELSE [saveQueue(q, quota) EXCEPT !.syncing = FALSE, !.active = @ - 1]

\* The queues the storage may hold when the page loads (lines 38-48): items
\* this code has saved, in the order of their ids.
InitialQueue(n, firstRetries) ==
    [QueueIdleValue EXCEPT !.items = [i \in 1..n |-> i],
                           !.retries = [i \in 1..n |-> IF i = 1 THEN firstRetries ELSE 0],
                           !.sent = [i \in 1..n |-> 0],
                           !.nextId = n + 1]

SmallQueues == {InitialQueue(n, r) : n \in {0, 2}, r \in {0, 2}}
FullQueues == {InitialQueue(MAX_QUEUE_SIZE, 0)}

QueueStart(queues) ==
    /\ \E q \in queues, online \in BOOLEAN : queue = [q EXCEPT !.isOnline = online]
    /\ planner = PlannerIdleValue /\ overlap = OverlapIdleValue
    /\ ExtractIdle /\ JsonIdle /\ HistIdle /\ ProvIdle /\ AgentIdle /\ AdapterIdle

QueueInit == QueueStart(SmallQueues \cup FullQueues)

QueueInitSmall == QueueStart(SmallQueues)

queueFrame ==
    <<extractVars, jsonVars, histVars, provVars, agentVars, adapterVars, planner, overlap>>

QueueEnqueue ==
    /\ queue.enqueued < MaxEnqueues
    /\ \E quota \in BOOLEAN : queue' = Enqueued(queue, quota)
    /\ UNCHANGED queueFrame

\* Lines 19-23: the online event sets the flag and calls sync.
QueueOnline ==
    /\ ~queue.isOnline
    /\ queue' = IF MayStart([queue EXCEPT !.isOnline = TRUE])
                THEN Started([queue EXCEPT !.isOnline = TRUE])
                ELSE [queue EXCEPT !.isOnline = TRUE]
    /\ UNCHANGED queueFrame

\* Lines 25-28: the offline event.
QueueOffline ==
    /\ queue.isOnline
    /\ queue' = [queue EXCEPT !.isOnline = FALSE]
    /\ UNCHANGED queueFrame

\* Lines 31-35 and 92-104: the timer, or the page, calls sync and a pass starts.
QueueSync ==
    /\ MayStart(queue)
    /\ queue' = Started(queue)
    /\ UNCHANGED queueFrame

\* Lines 104-134: the request of the next item of the pass is answered; after
\* the last one the pass ends.
QueueFetch ==
    /\ queue.syncing /\ queue.pass # <<>>
    /\ queue.fetches < MaxFetches
    /\ \E ok \in BOOLEAN, quota \in BOOLEAN :
          queue' = PassEnded(Answered(queue, Head(queue.pass), ok), quota)
    /\ UNCHANGED queueFrame

\* Lines 184-187, remove(id), for the oldest item, the newest, or an id the
\* queue does not hold.
QueueRemove ==
    /\ queue.removes < MaxRemoves
    /\ \E id \in {0} \cup (IF queue.items = <<>> THEN {}
                           ELSE {queue.items[1], queue.items[Len(queue.items)]}),
          quota \in BOOLEAN :
          queue' = saveQueue([queue EXCEPT !.items = Without(@, id), !.removes = @ + 1],
                             quota)
    /\ UNCHANGED queueFrame

\* Lines 161-165, clear.
QueueClear ==
    /\ \E quota \in BOOLEAN : queue' = saveQueue([queue EXCEPT !.items = <<>>], quota)
    /\ UNCHANGED queueFrame

QueueNext ==
    \/ QueueEnqueue \/ QueueOnline \/ QueueOffline \/ QueueSync
    \/ QueueFetch \/ QueueRemove \/ QueueClear

SpecQueue == QueueInit /\ [][QueueNext]_vars

\* The timer calls sync every 30 s (lines 31-35) and every request is answered
\* or rejected.
SpecQueueFair ==
    QueueInitSmall /\ [][QueueNext]_vars /\ WF_vars(QueueSync) /\ WF_vars(QueueFetch)

(***************************************************************************)
(* Claims about the OfflineQueue (SpecQueue, SpecQueueFair).               *)
(***************************************************************************)
InOrder(items) == \A i \in 1..(Len(items) - 1) : items[i] < items[i + 1]

Smaller(a, b) == IF a < b THEN a ELSE b

QueueWithinBound == Len(queue.items) <= MAX_QUEUE_SIZE /\ InOrder(queue.items)

\* What an enqueue leaves: the new item last, before it the newest items of the
\* queue it found, as many as fit under the bound (or under the 50 items a full
\* storage leaves).
EnqueueKeepsNewest ==
    queue'.enqueued = queue.enqueued + 1 =>
        LET fits == Smaller(Len(queue.items) + 1, MAX_QUEUE_SIZE) IN
        /\ queue'.items # <<>>
        /\ queue'.items[Len(queue'.items)] = queue.nextId
        /\ queue'.items = LastN(Append(queue.items, queue.nextId), Len(queue'.items))
        /\ Len(queue'.items) \in {fits, Smaller(fits, QuotaKeep)}

\* C39: the queue never holds more than MAX_QUEUE_SIZE items and keeps them in
\* the order of their enqueue; an enqueue puts the new item last and drops only
\* the oldest items of the queue it found.
C39_QueueBounded == []QueueWithinBound /\ [][EnqueueKeepsNewest]_vars

\* An enqueue on a full queue has dropped the oldest item and kept the new one.
C39_Witness ==
    /\ queue.enqueued = 1 /\ queue.nextId = MAX_QUEUE_SIZE + 2
    /\ Len(queue.items) = MAX_QUEUE_SIZE
    /\ queue.items[1] = 2
    /\ queue.items[Len(queue.items)] = MAX_QUEUE_SIZE + 1

InQueue(id) == \E i \in 1..Len(queue.items) : queue.items[i] = id

\* One pass at most, the flag set exactly while it runs; the items a pass has
\* still to send are in the order of their enqueue and come after the one it
\* sent last; an item whose request succeeded, or failed for the third time, is
\* no longer queued; no item is sent more than RetryLimit times.
QueueSafe ==
    /\ queue.active <= 1 /\ queue.syncing = (queue.active = 1)
    /\ queue.syncing = (queue.pass # <<>>)
    /\ InOrder(queue.pass)
    /\ queue.pass # <<>> => Head(queue.pass) > queue.lastSent
    /\ \A id \in 1..(queue.nextId - 1) :
          /\ (id \in queue.succeeded \/ queue.retries[id] >= RetryLimit) => ~InQueue(id)
          /\ queue.sent[id] <= RetryLimit

\* While the client is online every queued item leaves the queue (or the bound
\* on the requests of a run is reached).
QueueDrains ==
    \A id \in 1..(2 + MaxEnqueues) :
        InQueue(id) ~> (~InQueue(id) \/ ~queue.isOnline \/ queue.fetches = MaxFetches)

\* C40: one sync pass at a time with the flag reset at its end, items sent in
\* enqueue order, removed on success or after the third failure, never sent more
\* than 3 times, and every queued item leaves the queue while the client stays
\* online and sync is triggered.
C40_SyncPassesDrainTheQueue == []QueueSafe /\ QueueDrains

\* An item has been sent three times without success and is gone, another was
\* removed on its first success, and the pass has ended.
C40_Witness ==
    /\ ~queue.syncing /\ queue.passes >= 3
    /\ \E id \in 1..(queue.nextId - 1) :
          queue.sent[id] = RetryLimit /\ queue.retries[id] = RetryLimit /\ ~InQueue(id)
    /\ \E id \in queue.succeeded : queue.sent[id] = 1

====
